---- MODULE Spec2Model ----
(***************************************************************************)
(* Model of the API test engine of cursor-log-capture: the TestExecutor    *)
(* (executeTest, executeTests, executeConcurrentTest, validateResult), the *)
(* sequential loop of ApiTestManager.testCurrentController and the         *)
(* ReportGenerator (generateReport, saveReport).                           *)
(*                                                                         *)
(* Strings are TLA+ strings; an optional value is a sequence of length 0   *)
(* (absent) or 1 (present).  An optional list (setup.sqls, dbAssertions,   *)
(* responseContains ...) is a sequence, absent and empty behaving alike in *)
(* the code's guards.  Test inputs of the bounded domain carry no path or  *)
(* query parameters, so buildRequest's url is baseUrl + path.              *)
(***************************************************************************)
EXTENDS Integers, Sequences, FiniteSets, TLC

VARIABLES
    config,     \* TestConfig handed to TestExecutor and ReportGenerator
    mode,       \* which driver runs: "single", "executeTests", "manager", "concurrent"
    cases,      \* the driver's input test cases (TestCase[])
    hasProgress,\* executeTests: whether an onProgress callback was passed
    conc,       \* executeConcurrentTest: the concurrency argument
    ex,         \* the executeTest invocations, in launch order
    dpc,        \* the driver's position
    idx,        \* the driver's loop counter i
    results,    \* the driver's result list (results / allResults / Promise.all value)
    progress,   \* the onProgress calls made so far, <<current, total>>
    cancel,     \* token.isCancellationRequested
    report,     \* the TestReport built by generateReport (optional)
    artifacts,  \* the files saveReport wrote, [name, content]
    returned,   \* history: the invocations of ex in the order they returned
    iterations, \* executePerformanceTest: the iterations argument
    times,      \* executePerformanceTest: the times array
    stats,      \* executePerformanceTest: the stats returned (optional)
    clock,      \* Date.now(), in milliseconds
    reports,    \* the reports the last two generateReport calls returned
    savedDirs,  \* the directories the last two saveReport calls returned
    endpoint,   \* TestDataGenerator: the ApiEndpoint passed in
    testCases,  \* TestDataGenerator: what generateTestCases returned (optional)
    valueCall,  \* TestDataGenerator: a generateValueForType call and its value
    pureCall,   \* a call of combinePath or categorizeError and its value (optional)
    workspaceFolders, \* vscode.workspace.workspaceFolders[0].uri.fsPath (optional)
    storageLogs,\* LogStorage.logs
    savedLogs,  \* globalState 'capturedLogs' (optional)
    maxLines,   \* LogStorage.maxLines
    logFiles,   \* the log files on disk: path -> lines (optional when absent)
    watchers,   \* IdeaLogWatcher.watchers: the paths with a file watcher
    filePositions, \* IdeaLogWatcher.filePositions: path -> position (optional)
    dirWatching,\* a directory watcher of watchForNewLogFiles is open
    pendingChange, \* paths with an undelivered 'change' event of their file watcher
    pendingDir, \* paths with an undelivered event of a directory watcher
    startPc,    \* startWatching: "idle" or "finding" (awaiting findFiles)
    stopped,    \* history: stopWatching was called and no start or add call since
    fresh,      \* history: per path, the lines in the file written since its watch began
    writes      \* history: the number of lines written to log files so far

perfVars == <<iterations, times, stats>>
reportVars == <<clock, reports, savedDirs>>
genVars == <<endpoint, testCases, valueCall>>
storeVars == <<storageLogs, savedLogs, maxLines>>
watchVars == <<logFiles, watchers, filePositions, dirWatching, pendingChange, pendingDir,
               startPc, stopped, fresh, writes>>
auxVars == <<pureCall, workspaceFolders, storeVars, watchVars>>
otherVars == <<perfVars, reportVars, genVars, auxVars>>

vars == <<config, mode, cases, hasProgress, conc, ex, dpc, idx, results,
          progress, cancel, report, artifacts, returned, otherVars>>

(***************************************************************************)
(* Bounds of the model.                                                    *)
(***************************************************************************)
MaxSetup == 2        \* setup statements per case: 0..MaxSetup
MaxAsserts == 2      \* data assertions per case: 0..MaxAsserts
MaxTeardown == 1     \* teardown statements per case: 0..MaxTeardown
MaxRT == 2           \* measured response time: 0..MaxRT (ms)
MaxCases == 2        \* cases of a sequential batch: 0..MaxCases
MaxConc == 2         \* concurrency argument: 0..MaxConc
MaxIter == 3         \* iterations of a performance run: 0..MaxIter
MaxClock == 1        \* clock readings: 0..MaxClock (ms)

None == <<>>
Some(v) == <<v>>

(***************************************************************************)
(* String helpers: String.prototype.includes, toLowerCase, JSON.stringify. *)
(***************************************************************************)
includes(s, kw) ==
    \E i \in 1..(Len(s) - Len(kw) + 1) : SubSeq(s, i, i + Len(kw) - 1) = kw

UpperChars == <<"A","B","C","D","E","F","G","H","I","J","K","L","M",
                "N","O","P","Q","R","S","T","U","V","W","X","Y","Z">>
LowerChars == <<"a","b","c","d","e","f","g","h","i","j","k","l","m",
                "n","o","p","q","r","s","t","u","v","w","x","y","z">>

lowerChar(c) ==
    IF \E k \in 1..Len(UpperChars) : UpperChars[k] = c
    THEN LowerChars[CHOOSE k \in 1..Len(UpperChars) : UpperChars[k] = c]
    ELSE c

\* Character by character; the string is split in halves to keep the
\* evaluation shallow.
RECURSIVE toLowerCase(_)
toLowerCase(s) ==
    IF Len(s) = 0 THEN ""
    ELSE IF Len(s) = 1 THEN lowerChar(s)
    ELSE toLowerCase(SubSeq(s, 1, Len(s) \div 2))
            \o toLowerCase(SubSeq(s, Len(s) \div 2 + 1, Len(s)))

\* JSON.stringify of a string: quoted, with '"' and '\' escaped.
RECURSIVE jsonEscape(_)
jsonEscape(s) ==
    IF Len(s) = 0 THEN ""
    ELSE IF Len(s) = 1 THEN (IF s = "\"" \/ s = "\\" THEN "\\" \o s ELSE s)
    ELSE jsonEscape(SubSeq(s, 1, Len(s) \div 2))
            \o jsonEscape(SubSeq(s, Len(s) \div 2 + 1, Len(s)))

jsonString(s) == "\"" \o jsonEscape(s) \o "\""

\* A JSON value: [kind |-> "undefined"], [kind |-> "null"],
\* [kind |-> "number", n |-> k], [kind |-> "string", text |-> s] or
\* [kind |-> "object", text |-> s], s the object's canonical serialization.
Undefined == [kind |-> "undefined"]
Null == [kind |-> "null"]
Num(k) == [kind |-> "number", n |-> k]
Str(s) == [kind |-> "string", text |-> s]
Obj(s) == [kind |-> "object", text |-> s]

\* JSON.stringify(v); for undefined the result is undefined, not a string.
jsonStringify(v) ==
    CASE v.kind = "null" -> Some("null")
      [] v.kind = "number" -> Some(ToString(v.n))
      [] v.kind = "string" -> Some(jsonString(v.text))
      [] v.kind = "object" -> Some(v.text)
      [] OTHER -> None

RECURSIVE joinStrings(_, _)
joinStrings(seq, sep) ==
    IF Len(seq) = 0 THEN ""
    ELSE IF Len(seq) = 1 THEN seq[1]
    ELSE seq[1] \o sep \o joinStrings(Tail(seq), sep)

(***************************************************************************)
(* TestExecutor: the pure parts.                                           *)
(***************************************************************************)

\* executeSql: the stubbed extension point, a zero-row result for any statement.
executeSql(sql) == [sql |-> sql, result |-> Null, rowCount |-> 0]

\* new URL(requestInfo.url) in sendRequest accepts the url.
urlParses(url) == includes(url, "://")

\* Lines 411-451, for an input without path or query parameters.
buildRequest(cfg, tc) ==
    [method |-> tc.endpoint.method,
     url |-> cfg.baseUrl \o tc.endpoint.path,
     headers |-> <<[name |-> "Content-Type", value |-> "application/json"],
                   [name |-> "Accept", value |-> "application/json"]>>
                 \o (IF cfg.token # None /\ cfg.token[1] # ""
                     THEN <<[name |-> "Authorization",
                             value |-> "Bearer " \o cfg.token[1]]>>
                     ELSE <<>>),
     body |-> tc.input.body]

\* JSON.stringify(requestInfo.headers)
RECURSIVE headerPairs(_)
headerPairs(hs) ==
    IF Len(hs) = 0 THEN <<>>
    ELSE <<jsonString(hs[1].name) \o ":" \o jsonString(hs[1].value)>>
            \o headerPairs(Tail(hs))

stringifyHeaders(hs) == "{" \o joinStrings(headerPairs(hs), ",") \o "}"

\* Mutant: the connection keywords are looked for before 'timeout'.
categorizeError_ConnectFirst(e) ==
    LET message == IF e.message = None THEN "" ELSE toLowerCase(e.message[1])
    IN  IF includes(message, "connect") \/ includes(message, "econnrefused")
        THEN "connection"
        ELSE IF includes(message, "timeout") THEN "timeout"
        ELSE IF includes(message, "assert") THEN "assertion"
        ELSE "exception"

\* categorizeError: by the lower-cased message, '' when there is none.
categorizeError(e) ==
    LET message == IF e.message = None THEN "" ELSE toLowerCase(e.message[1])
    IN  IF includes(message, "timeout") THEN "timeout"
        ELSE IF includes(message, "connect") \/ includes(message, "econnrefused")
             THEN "connection"
        ELSE IF includes(message, "assert") THEN "assertion"
        ELSE "exception"

createEmptyResponse ==
    [statusCode |-> 0, statusText |-> "No Response", body |-> Null,
     responseTime |-> 0]

\* One data assertion against one query-result record (the switch of
\* validateResult); TRUE when the check does not fail the case.
assertionHolds(assertion, result) ==
    CASE assertion.expected = "exists" -> result.rowCount # 0
      [] assertion.expected = "notExists" -> ~(result.rowCount > 0)
      [] assertion.expected = "count" ->
            assertion.expectedValue = Num(result.rowCount)
      [] assertion.expected = "value" ->
            jsonStringify(result.result) = jsonStringify(assertion.expectedValue)
      [] OTHER -> TRUE

\* Mutant: the status-set check skipped.
validateResult_NoStatusSet(tc, response, error, dbResults) ==
    IF error # None THEN FALSE
    ELSE IF response = None THEN FALSE
    ELSE
      LET expected == tc.expected
          resp == response[1]
          responseStr == toLowerCase(jsonStringify(resp.body)[1])
      IN  /\ (expected.statusCode # None => resp.statusCode = expected.statusCode[1])
          /\ \A k \in 1..Len(expected.responseContains) :
                includes(responseStr, toLowerCase(expected.responseContains[k]))
          /\ \A k \in 1..Len(expected.responseNotContains) :
                ~includes(responseStr, toLowerCase(expected.responseNotContains[k]))
          /\ (expected.responseTime # None =>
                ~(resp.responseTime > expected.responseTime[1]))
          /\ \A i \in 1..Len(expected.dbAssertions) :
                i <= Len(dbResults) =>
                    assertionHolds(expected.dbAssertions[i], dbResults[i])

\* Mutant: the data assertions never evaluated.
validateResult_NoDb(tc, response, error, dbResults) ==
    IF error # None THEN FALSE
    ELSE IF response = None THEN FALSE
    ELSE
      LET expected == tc.expected
          resp == response[1]
          responseStr == toLowerCase(jsonStringify(resp.body)[1])
      IN  /\ (expected.statusCode # None => resp.statusCode = expected.statusCode[1])
          /\ (expected.statusCodes # None =>
                \E k \in 1..Len(expected.statusCodes[1]) :
                    expected.statusCodes[1][k] = resp.statusCode)
          /\ \A k \in 1..Len(expected.responseContains) :
                includes(responseStr, toLowerCase(expected.responseContains[k]))
          /\ \A k \in 1..Len(expected.responseNotContains) :
                ~includes(responseStr, toLowerCase(expected.responseNotContains[k]))
          /\ (expected.responseTime # None =>
                ~(resp.responseTime > expected.responseTime[1]))

\* Lines 591-594: the record the i-th data assertion is checked against.
assertedRecord(dbResults, i) == IF i <= Len(dbResults) THEN Some(dbResults[i]) ELSE None

\* validateResult: every early `return false` is one conjunct; the i-th data
\* assertion is checked against dbResults[i], skipped when there is none.
validateResult(tc, response, error, dbResults) ==
    IF error # None THEN FALSE
    ELSE IF response = None THEN FALSE
    ELSE
      LET expected == tc.expected
          resp == response[1]
          responseStr == toLowerCase(jsonStringify(resp.body)[1])
      IN  /\ (expected.statusCode # None => resp.statusCode = expected.statusCode[1])
          /\ (expected.statusCodes # None =>
                \E k \in 1..Len(expected.statusCodes[1]) :
                    expected.statusCodes[1][k] = resp.statusCode)
          /\ \A k \in 1..Len(expected.responseContains) :
                includes(responseStr, toLowerCase(expected.responseContains[k]))
          /\ \A k \in 1..Len(expected.responseNotContains) :
                ~includes(responseStr, toLowerCase(expected.responseNotContains[k]))
          /\ (expected.responseTime # None =>
                ~(resp.responseTime > expected.responseTime[1]))
          /\ \A i \in 1..Len(expected.dbAssertions) :
                assertedRecord(dbResults, i) # None =>
                    assertionHolds(expected.dbAssertions[i], assertedRecord(dbResults, i)[1])


(***************************************************************************)
(* TestExecutor.executeTest as a step machine.  One invocation is a record *)
(*   tc        the test case                                               *)
(*   pc        "sqlSetup" | "http" | "sqlAssert" | "sqlTeardown": the await *)
(*             it is suspended at; "done": returned; "thrown": rejected     *)
(*   k         index of the statement awaited in the current list          *)
(*   dbResults, response, error, logs   the locals of executeTest          *)
(*   promise   sendRequest's promise: "none" | "pending" | "resolved" |     *)
(*             "rejected", settled its value                               *)
(*   req       the ClientRequest: "none" | "inflight" | "destroyed" |       *)
(*             "closed"                                                    *)
(*   sent      HTTP requests issued by this invocation                     *)
(*   result    the TestResult returned (optional)                          *)
(* Every await is a point where other invocations and events may run.      *)
(***************************************************************************)
newExecution(tc) ==
    [tc |-> tc, pc |-> "start", k |-> 0, dbResults |-> <<>>,
     response |-> None, error |-> None, promise |-> "none", settled |-> None,
     req |-> "none", sent |-> 0,
     logs |-> <<"start: " \o tc.name>>, result |-> None]

\* Lines 307-326: the verdict and the TestResult.  The clock of an invocation
\* advances only while its answered request is in flight, so the duration is
\* the measured response time.
finish(cfg, x) ==
    LET passed == validateResult(x.tc, x.response, x.error, x.dbResults)
        logs == Append(x.logs, IF passed THEN "[Result] passed" ELSE "[Result] failed")
    IN  [x EXCEPT !.pc = "done", !.logs = logs,
            !.result = Some([testCase |-> x.tc,
                             passed |-> passed,
                             request |-> buildRequest(cfg, x.tc),
                             response |-> IF x.response # None THEN x.response[1]
                                          ELSE createEmptyResponse,
                             dbResults |-> x.dbResults,
                             duration |-> IF x.response # None
                                          THEN x.response[1].responseTime ELSE 0,
                             error |-> x.error,
                             logs |-> logs])]

\* Mutant: a rejected send is rethrown instead of recorded.
onSendRejected_Rethrow(cfg, x) == [x EXCEPT !.pc = "thrown"]

\* Mutant: a rejected send is retried once before the error is recorded.
onSendRejected_Retry(cfg, x) ==
    IF x.sent < 2
    THEN [x EXCEPT !.pc = "http", !.promise = "pending", !.settled = None,
                   !.req = "inflight", !.sent = x.sent + 1]
    ELSE finish(cfg, [x EXCEPT !.error =
                        Some([type |-> categorizeError(x.settled[1]),
                              message |-> x.settled[1].message])])

\* Lines 298-303: the TestError the catch block builds from what was thrown.
captureError(e) == [type |-> categorizeError(e), message |-> e.message]

\* Lines 297-305: the catch block, then the rest of executeTest.
onSendRejected(cfg, x) ==
    LET e == x.settled[1]
        error == captureError(e)
    IN  finish(cfg, [x EXCEPT !.error = Some(error),
                        !.logs = Append(x.logs, "[Error] " \o error.type)])

\* Lines 289-295: the teardown loop, up to its first await.
teardownStep(cfg, x) ==
    IF Len(x.tc.teardown) > 0
    THEN [x EXCEPT !.pc = "sqlTeardown", !.k = 1,
                   !.logs = Append(x.logs, "[Teardown]")]
    ELSE finish(cfg, x)

\* Lines 279-287: the data assertions, up to the first await.
assertStep(cfg, x) ==
    IF Len(x.tc.expected.dbAssertions) > 0
    THEN [x EXCEPT !.pc = "sqlAssert", !.k = 1, !.logs = Append(x.logs, "[DB]")]
    ELSE teardownStep(cfg, x)

\* Lines 262-272: buildRequest, the request log lines, sendRequest up to the
\* await.  new URL() throwing inside the promise executor rejects the promise
\* before any request is issued.
sendStep(cfg, x) ==
    LET requestInfo == buildRequest(cfg, x.tc)
        logs == x.logs \o
                <<"[Request] " \o requestInfo.method \o " " \o requestInfo.url,
                  "[Request] Headers: " \o stringifyHeaders(requestInfo.headers)>>
    IN  IF urlParses(requestInfo.url)
        THEN [x EXCEPT !.pc = "http", !.promise = "pending", !.req = "inflight",
                       !.sent = x.sent + 1, !.logs = logs]
        ELSE [x EXCEPT !.pc = "http", !.promise = "rejected",
                       !.settled = Some([message |-> Some("Invalid URL")]),
                       !.logs = logs]

\* Lines 243-260: executeTest from its call to its first await.
startExecution(cfg, tc) ==
    LET x == newExecution(tc)
    IN  IF Len(tc.setup) > 0
        THEN [x EXCEPT !.pc = "sqlSetup", !.k = 1,
                       !.logs = Append(x.logs, "[Setup]")]
        ELSE sendStep(cfg, x)

\* Mutant: an awaited teardown statement throws into the catch block.
resumeSql_TeardownThrows(cfg, x) ==
    CASE x.pc = "sqlSetup" ->
            LET y == [x EXCEPT !.dbResults = Append(x.dbResults,
                                                executeSql(x.tc.setup[x.k])),
                               !.logs = Append(x.logs, "[Setup] SQL: " \o x.tc.setup[x.k])]
            IN  IF x.k < Len(x.tc.setup) THEN [y EXCEPT !.k = x.k + 1]
                ELSE sendStep(cfg, y)
      [] x.pc = "sqlAssert" ->
            LET a == x.tc.expected.dbAssertions[x.k]
                y == [x EXCEPT !.dbResults = Append(x.dbResults, executeSql(a.sql)),
                               !.logs = Append(x.logs, "[DB] " \o a.sql)]
            IN  IF x.k < Len(x.tc.expected.dbAssertions) THEN [y EXCEPT !.k = x.k + 1]
                ELSE teardownStep(cfg, y)
      [] x.pc = "sqlTeardown" ->
            finish(cfg, [x EXCEPT !.error =
                            Some(captureError([message |-> Some("teardown failed")]))])

\* The continuation after an awaited executeSql.
resumeSql(cfg, x) ==
    CASE x.pc = "sqlSetup" ->
            LET y == [x EXCEPT !.dbResults = Append(x.dbResults,
                                                executeSql(x.tc.setup[x.k])),
                               !.logs = Append(x.logs, "[Setup] SQL: " \o x.tc.setup[x.k])]
            IN  IF x.k < Len(x.tc.setup) THEN [y EXCEPT !.k = x.k + 1]
                ELSE sendStep(cfg, y)
      [] x.pc = "sqlAssert" ->
            LET a == x.tc.expected.dbAssertions[x.k]
                y == [x EXCEPT !.dbResults = Append(x.dbResults, executeSql(a.sql)),
                               !.logs = Append(x.logs, "[DB] " \o a.sql)]
            IN  IF x.k < Len(x.tc.expected.dbAssertions) THEN [y EXCEPT !.k = x.k + 1]
                ELSE teardownStep(cfg, y)
      [] x.pc = "sqlTeardown" ->
            IF x.k < Len(x.tc.teardown) THEN [x EXCEPT !.k = x.k + 1]
            ELSE finish(cfg, x)

\* The continuation after the awaited sendRequest: lines 273-277 when it
\* resolved (rt is Date.now() - requestStartTime), the catch block when it
\* rejected.
resumeHttp(cfg, x, rt) ==
    IF x.promise = "resolved"
    THEN assertStep(cfg, [x EXCEPT
            !.response = Some([x.settled[1] EXCEPT !.responseTime = rt]),
            !.logs = Append(x.logs, "[Response] Status: "
                                        \o ToString(x.settled[1].statusCode))])
    ELSE onSendRejected(cfg, x)

\* Mutant: a later resolve or reject replaces the settled value.
settle_Overwrite(x, how, value) ==
    [x EXCEPT !.promise = how, !.settled = Some(value)]

\* Promise semantics: resolve and reject act on a pending promise only.
settle(x, how, value) ==
    IF x.promise = "pending"
    THEN [x EXCEPT !.promise = how, !.settled = Some(value)]
    ELSE x

(***************************************************************************)
(* Actions of one invocation e.                                            *)
(***************************************************************************)
\* The responses and measured times the environment may produce: the full
\* domain for a single executeTest, a passing and a failing response for the
\* batch drivers.
ResponseStatuses == {200, 500}
ResponseBodies == {Obj("{\"error\":\"npe\"}"), Str("SQL syntax near Id"), Null}
Responses ==
    IF mode = "single" THEN ResponseStatuses \X ResponseBodies
    ELSE ResponseStatuses \X {Obj("{\"error\":\"npe\"}")}
ResponseTimes == IF mode \in {"single", "performance"} THEN 0..MaxRT ELSE {0}
TransportErrors == {"connect ECONNREFUSED 127.0.0.1:8080", "socket hang up"}

Untouched == <<otherVars, config, mode, cases, hasProgress, conc, dpc, idx, results,
               progress, cancel, report, artifacts>>

\* Invocation e moves to y; the history notes the moment it returns.
Step(e, y) ==
    /\ ex' = [ex EXCEPT ![e] = y]
    /\ returned' = IF y.pc = "done" /\ ex[e].pc # "done"
                   THEN Append(returned, e) ELSE returned
    /\ UNCHANGED Untouched

\* res.on('end'): lines 479-494.
ResponseEnd(e) ==
    /\ ex[e].req = "inflight"
    /\ \E r \in Responses :
         Step(e, [settle(ex[e], "resolved",
                         [statusCode |-> r[1], statusText |-> "",
                          body |-> r[2], responseTime |-> 0])
                  EXCEPT !.req = "closed"])

\* req.on('error'): lines 497-499, for a request in flight.
RequestError(e) ==
    /\ ex[e].req = "inflight"
    /\ \E msg \in TransportErrors :
         Step(e, [settle(ex[e], "rejected", [message |-> Some(msg)])
                  EXCEPT !.req = "closed"])

\* req.on('timeout'): lines 501-504.
RequestTimeout(e) ==
    /\ ex[e].req = "inflight"
    /\ Step(e, [settle(ex[e], "rejected", [message |-> Some("Request timeout")])
                EXCEPT !.req = "destroyed"])

\* req.on('error') raised by req.destroy(): the promise is settled already.
ErrorAfterDestroy(e) ==
    /\ ex[e].req = "destroyed"
    /\ Step(e, [settle(ex[e], "rejected", [message |-> Some("socket hang up")])
                EXCEPT !.req = "closed"])

\* res.on('end') delivered for a request the timeout handler has destroyed:
\* resolve() on the promise the handler has rejected.
ResponseEndAfterDestroy(e) ==
    /\ ex[e].req = "destroyed"
    /\ \E r \in Responses :
         Step(e, [settle(ex[e], "resolved",
                         [statusCode |-> r[1], statusText |-> "",
                          body |-> r[2], responseTime |-> 0])
                  EXCEPT !.req = "closed"])

ResumeSql(e) ==
    /\ ex[e].pc \in {"sqlSetup", "sqlAssert", "sqlTeardown"}
    /\ Step(e, resumeSql(config, ex[e]))

ResumeHttp(e) ==
    /\ ex[e].pc = "http"
    /\ ex[e].promise \in {"resolved", "rejected"}
    /\ \E rt \in ResponseTimes : Step(e, resumeHttp(config, ex[e], rt))

ExecutionStep ==
    \E e \in 1..Len(ex) :
        \/ ResponseEnd(e)
        \/ RequestError(e)
        \/ RequestTimeout(e)
        \/ ErrorAfterDestroy(e)
        \/ ResponseEndAfterDestroy(e)
        \/ ResumeSql(e)
        \/ ResumeHttp(e)


(***************************************************************************)
(* Test cases and configurations of the bounded domain.                    *)
(***************************************************************************)
SeqsUpTo(S, n) == UNION {[1..m -> S] : m \in 0..n}

SetupStatements == <<"INSERT 1", "INSERT 2", "INSERT 3">>
TeardownStatements == <<"DELETE 1", "DELETE 2">>

Assertions ==
    {[sql |-> "SELECT exists", expected |-> "exists", expectedValue |-> Undefined],
     [sql |-> "SELECT notExists", expected |-> "notExists", expectedValue |-> Undefined],
     [sql |-> "SELECT count", expected |-> "count", expectedValue |-> Num(0)],
     [sql |-> "SELECT count", expected |-> "count", expectedValue |-> Num(1)],
     [sql |-> "SELECT value", expected |-> "value", expectedValue |-> Null]}

\* The expectations of the bounded domain: every combination of the HTTP
\* checks with at most one data assertion, and the functional case's plain
\* expectation with every assertion list up to MaxAsserts.
HttpExpectations ==
    [statusCode : {None, Some(200)},
     statusCodes : {None, Some(<<200, 400>>)},
     responseContains : {<<>>, <<"ERROR">>},
     responseNotContains : {<<>>, <<"sql">>},
     responseTime : {None, Some(1)},
     dbAssertions : SeqsUpTo(Assertions, 1)]

DbExpectations ==
    [statusCode : {Some(200)},
     statusCodes : {None},
     responseContains : {<<>>},
     responseNotContains : {<<>>},
     responseTime : {Some(1)},
     dbAssertions : SeqsUpTo(Assertions, MaxAsserts)]

Expectations == HttpExpectations \cup DbExpectations

testCase(id, expected, nSetup, nTeardown) ==
    [id |-> id, name |-> id, category |-> "functional",
     endpoint |-> [method |-> "GET", path |-> "/users"],
     input |-> [body |-> Undefined],
     expected |-> expected,
     setup |-> SubSeq(SetupStatements, 1, nSetup),
     teardown |-> SubSeq(TeardownStatements, 1, nTeardown)]

VerdictCases ==
    {testCase("getUsers_functional", expected, nSetup, nTeardown) :
        expected \in Expectations, nSetup \in 0..MaxSetup,
        nTeardown \in 0..MaxTeardown}

Configs ==
    [baseUrl : {"http://localhost:8080", ""}, token : {None, Some("s3cr3t")}]

(***************************************************************************)
(* SpecExec: one call of executeTest on any case of VerdictCases.          *)
(***************************************************************************)
\* No performance run is in progress.
PerfIdle == iterations = 0 /\ times = <<>> /\ stats = None

\* An endpoint without parameters or request body.
NoEndpoint ==
    [method |-> "GET", path |-> "/", name |-> "", methodName |-> "",
     parameters |-> <<>>, requestBody |-> None]

\* No TestDataGenerator call was made.
GenIdle == endpoint = NoEndpoint /\ testCases = None /\ valueCall = None

\* The log files of the workspace: one found by findFiles, one created later.
LogPaths == {"logs/app.log", "logs/new.log"}

\* No combinePath or categorizeError call was made.
PureIdle == pureCall = None

\* A LogStorage on a fresh installation that nothing is added to.
StoreIdle == storageLogs = <<>> /\ savedLogs = None /\ maxLines = 1

\* An IdeaLogWatcher that was never started, in a workspace without log files.
WatchIdle ==
    /\ logFiles = [p \in LogPaths |-> None]
    /\ watchers = {}
    /\ filePositions = [p \in LogPaths |-> None]
    /\ dirWatching = FALSE
    /\ pendingChange = {}
    /\ pendingDir = {}
    /\ startPc = "idle"
    /\ stopped = FALSE
    /\ fresh = [p \in LogPaths |-> <<>>]
    /\ writes = 0

\* A workspace folder is open and the other components are not in use.
AuxIdle == workspaceFolders = Some("/ws") /\ PureIdle /\ StoreIdle /\ WatchIdle

\* The history kept of generateReport and saveReport calls: the last two.
lastTwo(q) == IF Len(q) > 2 THEN SubSeq(q, Len(q) - 1, Len(q)) ELSE q

\* No report was generated or saved yet.
ReportIdle == clock = 0 /\ reports = <<>> /\ savedDirs = <<>>

InitExec ==
    /\ config \in {c \in Configs : c.token = None}
    /\ mode = "single"
    /\ cases \in {<<tc>> : tc \in VerdictCases}
    /\ hasProgress = FALSE
    /\ conc = 0
    /\ ex = <<>>
    /\ dpc = "call"
    /\ idx = 0
    /\ results = <<>>
    /\ progress = <<>>
    /\ cancel = FALSE
    /\ report = None
    /\ artifacts = {}
    /\ returned = <<>>
    /\ PerfIdle
    /\ ReportIdle
    /\ GenIdle
    /\ AuxIdle

CallExecuteTest ==
    /\ mode = "single" /\ dpc = "call"
    /\ ex' = <<startExecution(config, cases[1])>>
    /\ dpc' = "await"
    /\ UNCHANGED <<otherVars, config, mode, cases, hasProgress, conc, idx, results,
                   progress, cancel, report, artifacts, returned>>

ReturnExecuteTest ==
    /\ mode = "single" /\ dpc = "await"
    /\ ex[1].pc = "done"
    /\ results' = <<ex[1].result[1]>>
    /\ dpc' = "done"
    /\ UNCHANGED <<otherVars, config, mode, cases, hasProgress, conc, ex, idx,
                   progress, cancel, report, artifacts, returned>>

NextExec == CallExecuteTest \/ ReturnExecuteTest \/ ExecutionStep

SpecExec == InitExec /\ [][NextExec]_vars


(***************************************************************************)
(* Claims about executeTest and validateResult, checked under SpecExec.    *)
(***************************************************************************)
Executions == {ex[e] : e \in 1..Len(ex)}
Returned == {x \in Executions : x.pc = "done"}
SendFailed(x) == x.promise = "rejected"

\* An invocation suspended at an await whose continuation or settling event
\* is still to come (the guards of ResumeSql, ResumeHttp and the events).
CanStep(x) ==
    \/ x.pc \in {"sqlSetup", "sqlAssert", "sqlTeardown"}
    \/ x.pc = "http" /\ (x.promise \in {"resolved", "rejected"} \/ x.req = "inflight")

\* C2: executeTest returns exactly one TestResult whatever the send step does
\* and no exception leaves it; when the send fails the result has
\* passed = false, an error, and the empty sentinel response (status 0,
\* 'No Response').  An invocation that has not returned is never stuck.
C2_AlwaysOneResult ==
    /\ \A e \in 1..Len(ex) :
        /\ ex[e].pc # "thrown"
        /\ (ex[e].pc = "done") = (ex[e].result # None)
        /\ ex[e].pc # "done" => CanStep(ex[e])
        /\ (ex[e].pc = "done" /\ SendFailed(ex[e])) =>
              /\ ex[e].result[1].passed = FALSE
              /\ ex[e].result[1].error # None
              /\ ex[e].result[1].response.statusCode = 0
              /\ ex[e].result[1].response.statusText = "No Response"
        /\ ex[e].pc = "done" => ex[e].result[1].testCase = ex[e].tc
    /\ (mode = "single" /\ dpc = "done") =>
          Len(results) = 1 /\ results[1].testCase = cases[1]

C2_Witness ==
    \E x \in Returned :
        /\ SendFailed(x)
        /\ x.req \in {"destroyed", "closed"}
        /\ x.result[1].error[1].type = "timeout"
        /\ x.result[1].passed = FALSE

\* The checks of the verdict, stated from the expectation's fields.
SeqRange(q) == {q[i] : i \in 1..Len(q)}
SerializedBody(resp) == toLowerCase(jsonStringify(resp.body)[1])

HttpChecksHold(expected, resp) ==
    /\ expected.statusCode # None => resp.statusCode = expected.statusCode[1]
    /\ expected.statusCodes # None => resp.statusCode \in SeqRange(expected.statusCodes[1])
    /\ \A kw \in SeqRange(expected.responseContains) :
            includes(SerializedBody(resp), toLowerCase(kw))
    /\ \A kw \in SeqRange(expected.responseNotContains) :
            ~includes(SerializedBody(resp), toLowerCase(kw))
    /\ expected.responseTime # None => resp.responseTime <= expected.responseTime[1]

AssertionSatisfied(a, rec) ==
    CASE a.expected = "exists" -> rec.rowCount > 0
      [] a.expected = "notExists" -> rec.rowCount = 0
      [] a.expected = "count" ->
            a.expectedValue.kind = "number" /\ a.expectedValue.n = rec.rowCount
      [] a.expected = "value" ->
            jsonStringify(rec.result) = jsonStringify(a.expectedValue)

\* The record produced by executing the i-th assertion's own statement.
OwnRecord(x, i) == x.dbResults[Len(x.tc.setup) + i]

\* C3: a case is marked passed exactly when no error was captured, a response
\* was received, and every specified check holds: status code equal, status
\* in the accepted set, required substrings present and forbidden ones absent
\* in the lower-cased serialized body (keywords compared lower-cased),
\* response time at or under the ceiling, every data assertion satisfied.
C3_VerdictExactlyWhenAllChecksHold ==
    \A x \in Returned :
        x.result[1].passed =
            (/\ x.error = None
             /\ x.response # None
             /\ HttpChecksHold(x.tc.expected, x.response[1])
             /\ \A i \in 1..Len(x.tc.expected.dbAssertions) :
                    AssertionSatisfied(x.tc.expected.dbAssertions[i], OwnRecord(x, i)))

\* A 500 response passes when no status expectation is specified and the
\* forbidden substring is absent.
C3_Witness ==
    \E x \in Returned :
        /\ x.result[1].passed
        /\ x.result[1].response.statusCode = 500
        /\ x.tc.expected.statusCode = None /\ x.tc.expected.statusCodes = None
        /\ x.tc.expected.responseNotContains = <<"sql">>

\* C4: with the zero-row stub, a case with at least one data assertion
\* expecting `exists` gets verdict false, for any number of setup statements
\* and whatever the HTTP response is.
C4_ExistsAgainstStubFails ==
    \A x \in Returned :
        (\E i \in 1..Len(x.tc.expected.dbAssertions) :
            x.tc.expected.dbAssertions[i].expected = "exists")
        => x.result[1].passed = FALSE

\* Two setup statements, one `exists` assertion, and an HTTP response that
\* alone would have passed.
C4_Witness ==
    \E x \in Returned :
        /\ Len(x.tc.setup) = 2
        /\ Len(x.tc.expected.dbAssertions) = 1
        /\ x.tc.expected.dbAssertions[1].expected = "exists"
        /\ x.error = None /\ x.response # None
        /\ x.tc.expected.statusCode = Some(200)
        /\ HttpChecksHold(x.tc.expected, x.response[1])
        /\ x.result[1].passed = FALSE

\* C10: an invocation of executeTest sends at most one HTTP request; after a
\* failed send it sends nothing more, and the failure is in its result as an
\* error with passed = false.
C10_AtMostOneRequest ==
    /\ [](\A e \in 1..Len(ex) :
            /\ ex[e].sent <= 1
            /\ (ex[e].pc = "done" /\ SendFailed(ex[e])) =>
                  ex[e].result[1].error # None /\ ~ex[e].result[1].passed)
    /\ [][\A e \in 1..Len(ex) :
            SendFailed(ex[e]) => (Len(ex') >= e /\ ex'[e].sent = ex[e].sent)]_vars

C10_Witness ==
    \E x \in Returned :
        /\ SendFailed(x) /\ x.sent = 1
        /\ x.result[1].error[1].type = "connection"


(***************************************************************************)
(* ReportGenerator: generateReport and the five artifacts of saveReport.   *)
(* An artifact's content is the concatenation of the fields the code       *)
(* embeds in it (fixed headings and layout left out).                      *)
TimeoutError == [message |-> Some("Request timeout")]

\* C11: when the timeout event fires for a request in flight, the request is
\* destroyed and the promise rejected with 'Request timeout'; the socket error
\* raised by the abort or a late response end changes neither the settled
\* value nor a result already returned, and the result has error type
\* timeout and passed = FALSE.
C11_TimeoutAbortsAndWins ==
    /\ [](\A e \in 1..Len(ex) :
            /\ ex[e].req = "destroyed" =>
                  ex[e].promise = "rejected" /\ ex[e].settled = Some(TimeoutError)
            /\ (ex[e].pc = "done" /\ ex[e].settled = Some(TimeoutError)) =>
                  /\ ex[e].result[1].error
                        = Some([type |-> "timeout", message |-> Some("Request timeout")])
                  /\ ~ex[e].result[1].passed
                  /\ ex[e].sent = 1)
    /\ [][\A e \in 1..Len(ex) :
            /\ ex[e].req \in {"destroyed", "closed"} =>
                  (Len(ex') >= e /\ ex'[e].req \in {"destroyed", "closed"})
            /\ (ex[e].req = "destroyed" /\ Len(ex') >= e) =>
                  /\ ex'[e].promise = ex[e].promise
                  /\ ex'[e].settled = ex[e].settled
            /\ (ex[e].pc = "done" /\ Len(ex') >= e) =>
                  ex'[e].result = ex[e].result]_vars

\* The timeout fired, the abort's socket error arrived, the case returned.
C11_Witness ==
    \E e \in 1..Len(ex) :
        /\ ex[e].pc = "done" /\ ex[e].req = "closed"
        /\ ex[e].settled = Some(TimeoutError)
        /\ ex[e].result[1].error[1].type = "timeout"


(***************************************************************************)
MapSeq(Op(_), q) == [i \in 1..Len(q) |-> Op(q[i])]

\* Lines 444-453 (the bounded configurations have no database section).
sanitizeConfig(cfg) ==
    [cfg EXCEPT !.token = IF cfg.token # None /\ cfg.token[1] # ""
                          THEN Some("***") ELSE None]

\* Mutant: only the results that carry an error are counted as failed.
generateSummary_FailedWithError(rs) ==
    [total |-> Len(rs),
     passed |-> Cardinality({i \in 1..Len(rs) : rs[i].passed}),
     failed |-> Cardinality({i \in 1..Len(rs) : rs[i].error # None}),
     skipped |-> 0]

\* Array.prototype.reduce((a, b) => a + b, 0).
RECURSIVE sumOf(_)
sumOf(q) ==
    IF Len(q) = 0 THEN 0
    ELSE IF Len(q) = 1 THEN q[1]
    ELSE sumOf(SubSeq(q, 1, Len(q) \div 2))
            + sumOf(SubSeq(q, Len(q) \div 2 + 1, Len(q)))

TestCategories == {"functional", "validation", "exception", "boundary",
                   "transaction", "concurrent", "performance"}

\* Lines 436-439 and 350: ((value / total) * 100).toFixed(1) + '%'.
toFixed1Percent(value, total) ==
    LET tenths == (2000 * value + total) \div (2 * total)
    IN  ToString(tenths \div 10) \o "." \o ToString(tenths % 10) \o "%"

\* Lines 317-353.
generateSummary(rs) ==
    LET passed == Cardinality({i \in 1..Len(rs) : rs[i].passed})
        of(cat) == {i \in 1..Len(rs) : rs[i].testCase.category = cat}
    IN  [total |-> Len(rs),
         passed |-> passed,
         failed |-> Cardinality({i \in 1..Len(rs) : ~rs[i].passed}),
         skipped |-> 0,
         duration |-> sumOf([i \in 1..Len(rs) |-> rs[i].duration]),
         passRate |-> IF Len(rs) > 0 THEN toFixed1Percent(passed, Len(rs)) ELSE "0%",
         categories |-> [cat \in TestCategories |->
                            [total |-> Cardinality(of(cat)),
                             passed |-> Cardinality({i \in of(cat) : rs[i].passed}),
                             failed |-> Cardinality({i \in of(cat) : ~rs[i].passed})]]]

\* Date.prototype.toISOString for a clock that reads now milliseconds into
\* its second.
toISOString(now) ==
    "2026-01-01T00:00:00."
        \o (IF now < 10 THEN "00" ELSE IF now < 100 THEN "0" ELSE "")
        \o ToString(now) \o "Z"

\* String.prototype.replace(/[:.]/g, '-').
RECURSIVE replaceColonsAndDots(_)
replaceColonsAndDots(s) ==
    IF Len(s) = 0 THEN ""
    ELSE IF Len(s) = 1 THEN (IF s = ":" \/ s = "." THEN "-" ELSE s)
    ELSE replaceColonsAndDots(SubSeq(s, 1, Len(s) \div 2))
            \o replaceColonsAndDots(SubSeq(s, Len(s) \div 2 + 1, Len(s)))

\* Line 58.
timestampOf(now) == replaceColonsAndDots(toISOString(now))

\* The values Math.random().toString(36).substring(2, 8) may take.
RandomSuffixes == {"k3x9aq", "0zr41m"}

\* Lines 429-431.
generateReportId(now, rnd) == "report_" \o ToString(now) \o "_" \o rnd

\* Mutant: the summary's duration counted up to the moment of the call.
generateReport_StampedSummary(rs, cfg, now, rnd) ==
    [id |-> generateReportId(now, rnd), name |-> "API report", generatedAt |-> now,
     config |-> sanitizeConfig(cfg),
     summary |-> [generateSummary(rs) EXCEPT !.duration = @ + now],
     results |-> rs]

\* Lines 31-47, at clock reading now and random draw rnd.
generateReport(rs, cfg, now, rnd) ==
    [id |-> generateReportId(now, rnd), name |-> "API report", generatedAt |-> now,
     config |-> sanitizeConfig(cfg),
     summary |-> generateSummary(rs), results |-> rs]

\* JSON.stringify of the configuration and of one result, as report.json
\* holds them (line 68).
stringifyConfig(cfg) ==
    "{\"baseUrl\":" \o jsonString(cfg.baseUrl)
        \o (IF cfg.token # None THEN ",\"token\":" \o jsonString(cfg.token[1]) ELSE "")
        \o "}"

stringifyError(err) ==
    IF err = None THEN ""
    ELSE ",\"error\":{\"type\":" \o jsonString(err[1].type) \o ",\"message\":"
            \o (IF err[1].message = None THEN "null" ELSE jsonString(err[1].message[1]))
            \o "}"

stringifyResult(r) ==
    "{\"testCase\":{\"id\":" \o jsonString(r.testCase.id) \o "}"
        \o ",\"passed\":" \o (IF r.passed THEN "true" ELSE "false")
        \o ",\"request\":{\"method\":" \o jsonString(r.request.method)
        \o ",\"url\":" \o jsonString(r.request.url)
        \o ",\"headers\":" \o stringifyHeaders(r.request.headers) \o "}"
        \o ",\"response\":{\"statusCode\":" \o ToString(r.response.statusCode)
        \o ",\"body\":" \o jsonStringify(r.response.body)[1] \o "}"
        \o stringifyError(r.error)
        \o ",\"logs\":[" \o joinStrings(MapSeq(jsonString, r.logs), ",") \o "]}"

reportJson(rep) ==
    "{\"id\":" \o jsonString(rep.id)
        \o ",\"generatedAt\":" \o jsonString(toISOString(rep.generatedAt))
        \o ",\"config\":" \o stringifyConfig(rep.config)
        \o ",\"summary\":{\"total\":" \o ToString(rep.summary.total)
        \o ",\"passed\":" \o ToString(rep.summary.passed)
        \o ",\"failed\":" \o ToString(rep.summary.failed)
        \o ",\"skipped\":" \o ToString(rep.summary.skipped) \o "}"
        \o ",\"results\":[" \o joinStrings(MapSeq(stringifyResult, rep.results), ",")
        \o "]}"

\* Lines 88-187: report.md.
markdownCase(r) ==
    r.testCase.name \o " " \o r.testCase.endpoint.method \o " "
        \o r.testCase.endpoint.path
        \o (IF r.passed THEN ""
            ELSE (IF r.error = None THEN ""
                  ELSE " " \o r.error[1].type \o " "
                        \o (IF r.error[1].message = None THEN "undefined"
                            ELSE r.error[1].message[1]))
                 \o " " \o jsonStringify(r.response.body)[1])

generateMarkdownReport(rep) ==
    rep.config.baseUrl \o " " \o ToString(rep.summary.passed) \o "/"
        \o ToString(rep.summary.total) \o " "
        \o joinStrings(MapSeq(markdownCase, rep.results), "\n")

\* Lines 192-233: detailed-logs.md.
detailedLog(r) ==
    r.testCase.name \o "\n" \o r.request.method \o " " \o r.request.url
        \o "\nHeaders: " \o stringifyHeaders(r.request.headers)
        \o "\nStatus: " \o ToString(r.response.statusCode) \o " " \o r.response.statusText
        \o "\nBody: " \o jsonStringify(r.response.body)[1]
        \o "\n" \o joinStrings(MapSeq(LAMBDA d : d.sql, r.dbResults), "\n")
        \o "\n" \o joinStrings(r.logs, "\n")

generateDetailedLogs(rep) == joinStrings(MapSeq(detailedLog, rep.results), "\n---\n")

\* Lines 238-278: failed-cases.md.
failedCase(r) ==
    IF r.passed THEN ""
    ELSE r.testCase.name \o " "
            \o (IF r.error = None \/ r.error[1].message = None THEN "unknown"
                ELSE r.error[1].message[1])

generateFailedCasesReport(rep) == joinStrings(MapSeq(failedCase, rep.results), "\n")

\* Lines 283-312: sql-queries.md.
sqlCase(r) == joinStrings(MapSeq(LAMBDA d : d.sql, r.dbResults), "\n")

generateSqlReport(rep) == joinStrings(MapSeq(sqlCase, rep.results), "\n")

\* The five files of one saveReport call (lines 63-80).
reportFiles(rep) ==
    {[name |-> "report.md", content |-> generateMarkdownReport(rep)],
     [name |-> "report.json", content |-> reportJson(rep)],
     [name |-> "detailed-logs.md", content |-> generateDetailedLogs(rep)],
     [name |-> "failed-cases.md", content |-> generateFailedCasesReport(rep)],
     [name |-> "sql-queries.md", content |-> generateSqlReport(rep)]}

\* path.join of plain segments: the empty ones are left out.
RECURSIVE pathJoin(_)
pathJoin(segments) ==
    IF segments = <<>> THEN ""
    ELSE LET rest == pathJoin(Tail(segments))
         IN  IF segments[1] = "" THEN rest
             ELSE IF rest = "" THEN segments[1]
             ELSE segments[1] \o "/" \o rest

\* Lines 22-26: the constructor; without a workspace folder the root is ''
\* and the directory is relative to the working directory of the process.
testDirOf(folders) ==
    pathJoin(<<IF folders = None THEN "" ELSE folders[1], ".cursor-logs", "test">>)

\* Line 59: the directory of a saveReport call at clock reading now.
reportDirOf(testDir, now) == pathJoin(<<testDir, "report_" \o timestampOf(now)>>)

\* Lines 52-83: mkdirSync(recursive) accepts an existing directory and
\* writeFileSync replaces an existing file.  files is the file system before
\* the call; the result holds the directory returned and the file system
\* after it.
saveReport(testDir, rep, now, files) ==
    LET reportDir == reportDirOf(testDir, now)
        written == {[dir |-> reportDir, name |-> f.name, content |-> f.content] :
                        f \in reportFiles(rep)}
        kept == {g \in files :
                    ~\E w \in written : w.dir = g.dir /\ w.name = g.name}
    IN  [reportDir |-> reportDir, files |-> kept \cup written]


\* String.prototype.indexOf counted from 1; 0 when kw does not occur.
indexOf(s, kw) ==
    LET hits == {i \in 1..(Len(s) - Len(kw) + 1) : SubSeq(s, i, i + Len(kw) - 1) = kw}
    IN  IF hits = {} THEN 0 ELSE CHOOSE i \in hits : \A h \in hits : i <= h

Digits == <<"0", "1", "2", "3", "4", "5", "6", "7", "8", "9">>

digitValue(c) == (CHOOSE d \in 1..10 : Digits[d] = c) - 1

isDigit(c) == \E d \in 1..10 : Digits[d] = c

\* The number JSON.parse reads from the decimal digits that start s.
RECURSIVE parseDigits(_, _)
parseDigits(s, acc) ==
    IF Len(s) > 0 /\ isDigit(SubSeq(s, 1, 1))
    THEN parseDigits(Tail(s), 10 * acc + digitValue(SubSeq(s, 1, 1)))
    ELSE acc

\* JSON.parse restricted to a number member of the object that starts s.
numberMember(s, key) ==
    LET k == "\"" \o key \o "\":"
    IN  parseDigits(SubSeq(s, indexOf(s, k) + Len(k), Len(s)), 0)

\* JSON.parse(report.json).summary, its four counts.
parseReportSummary(text) ==
    LET k == "\"summary\":"
        body == SubSeq(text, indexOf(text, k) + Len(k), Len(text))
    IN  [total |-> numberMember(body, "total"),
         passed |-> numberMember(body, "passed"),
         failed |-> numberMember(body, "failed"),
         skipped |-> numberMember(body, "skipped")]


(***************************************************************************)
(* The batch drivers: TestExecutor.executeTests, executeConcurrentTest and *)
(* the sequential loop of ApiTestManager.testCurrentController, followed   *)
(* by generateReport and saveReport.                                       *)
(***************************************************************************)
PlainExpectation ==
    [statusCode |-> Some(200), statusCodes |-> None, responseContains |-> <<>>,
     responseNotContains |-> <<>>, responseTime |-> Some(1), dbAssertions |-> <<>>]

RunCases ==
    {testCase("getUsers_functional", PlainExpectation, 0, 0),
     testCase("addUser_functional", PlainExpectation, 1, 1)}

\* Mutant: the clone index left out of the id.
cloneCase_NoIndex(tc, i, n) ==
    [tc EXCEPT !.id = tc.id \o "_concurrent",
               !.name = tc.name \o " (" \o ToString(i + 1) \o "/" \o ToString(n) \o ")"]

\* Lines 357-361: the clone handed to executeTest.
cloneCase(tc, i, n) ==
    [tc EXCEPT !.id = tc.id \o "_concurrent_" \o ToString(i),
               !.name = tc.name \o " (" \o ToString(i + 1) \o "/" \o ToString(n) \o ")"]

\* Mutant: resolved as soon as one clone has returned.
promiseAll_First(execs) ==
    IF \E e \in 1..Len(execs) : execs[e].pc = "thrown"
    THEN [state |-> "rejected", value |-> <<>>]
    ELSE IF Len(execs) = 0 \/ \E e \in 1..Len(execs) : execs[e].pc = "done"
    THEN [state |-> "resolved",
          value |-> MapSeq(LAMBDA x : x.result[1],
                           SelectSeq(execs, LAMBDA x : x.pc = "done"))]
    ELSE [state |-> "pending", value |-> <<>>]

\* Line 364: Promise.all over the clones' promises: rejected as soon as one
\* rejects, resolved with every value in position once all have resolved.
promiseAll(execs) ==
    IF \E e \in 1..Len(execs) : execs[e].pc = "thrown"
    THEN [state |-> "rejected", value |-> <<>>]
    ELSE IF \A e \in 1..Len(execs) : execs[e].pc = "done"
    THEN [state |-> "resolved", value |-> MapSeq(LAMBDA x : x.result[1], execs)]
    ELSE [state |-> "pending", value |-> <<>>]

\* Mutant: progress counted from 0.
progressCall_ZeroBased(i, n) == <<i, n>>

\* Line 337: onProgress(i + 1, testCases.length).
progressCall(i, n) == <<i + 1, n>>

\* Mutant: the loop counter advanced by two.
nextIndex_Skip(i) == i + 2

\* Lines 164 and 335: i++.
nextIndex(i) == i + 1

\* Mutant: the cancellation request ignored.
shouldBreak_Never(cancelRequested) == FALSE

\* Lines 165-167: if (token.isCancellationRequested) break.
shouldBreak(cancelRequested) == cancelRequested

\* Lines 335-341: the head of executeTests' loop at counter i and what follows
\* up to the await of executeTest.
BatchLoop(i) ==
    /\ idx' = i
    /\ IF i < Len(cases)
       THEN /\ progress' = IF hasProgress
                           THEN Append(progress, progressCall(i, Len(cases)))
                           ELSE progress
            /\ ex' = Append(ex, startExecution(config, cases[i + 1]))
            /\ dpc' = "awaitExec"
       ELSE /\ dpc' = "done"
            /\ UNCHANGED <<progress, ex>>

BatchStart ==
    /\ mode = "executeTests" /\ dpc = "call"
    /\ BatchLoop(0)
    /\ UNCHANGED <<otherVars, config, mode, cases, hasProgress, conc, results, cancel,
                   report, artifacts, returned>>

\* Lines 340-344: the awaited result is pushed, then delay(100) is awaited.
BatchCollect ==
    /\ mode = "executeTests" /\ dpc = "awaitExec"
    /\ ex[idx + 1].pc = "done"
    /\ results' = Append(results, ex[idx + 1].result[1])
    /\ dpc' = "delay"
    /\ UNCHANGED <<otherVars, config, mode, cases, hasProgress, conc, ex, idx, progress,
                   cancel, report, artifacts, returned>>

BatchDelayElapsed ==
    /\ mode = "executeTests" /\ dpc = "delay"
    /\ BatchLoop(nextIndex(idx))
    /\ UNCHANGED <<otherVars, config, mode, cases, hasProgress, conc, results, cancel,
                   report, artifacts, returned>>

\* index.ts lines 164-174: the head of the manager's loop at counter i.
ManagerLoop(i) ==
    /\ idx' = i
    /\ IF shouldBreak(cancel) \/ ~(i < Len(cases))
       THEN /\ dpc' = "report"
            /\ UNCHANGED ex
       ELSE /\ ex' = Append(ex, startExecution(config, cases[i + 1]))
            /\ dpc' = "awaitExec"

ManagerStart ==
    /\ mode = "manager" /\ dpc = "call"
    /\ ManagerLoop(0)
    /\ UNCHANGED <<otherVars, config, mode, cases, hasProgress, conc, results, progress,
                   cancel, report, artifacts, returned>>

\* index.ts lines 174-182.
ManagerCollect ==
    /\ mode = "manager" /\ dpc = "awaitExec"
    /\ ex[idx + 1].pc = "done"
    /\ results' = Append(results, ex[idx + 1].result[1])
    /\ ManagerLoop(nextIndex(idx))
    /\ UNCHANGED <<otherVars, config, mode, cases, hasProgress, conc, progress, cancel,
                   report, artifacts, returned>>

\* The user cancels the progress notification while a case is awaited.
RequestCancel ==
    /\ mode = "manager" /\ dpc = "awaitExec" /\ ~cancel
    /\ cancel' = TRUE
    /\ UNCHANGED <<otherVars, config, mode, cases, hasProgress, conc, ex, dpc, idx, results,
                   progress, report, artifacts, returned>>

\* index.ts line 189.
GenerateReport ==
    /\ mode = "manager" /\ dpc = "report"
    /\ \E rnd \in RandomSuffixes :
         /\ report' = Some(generateReport(results, config, clock, rnd))
         /\ reports' = lastTwo(Append(reports, generateReport(results, config, clock, rnd)))
    /\ dpc' = "save"
    /\ UNCHANGED <<perfVars, genVars, auxVars, clock, savedDirs, config, mode, cases, hasProgress, conc, ex, idx, results,
                   progress, cancel, artifacts, returned>>

\* index.ts line 190.
SaveReport ==
    /\ mode = "manager" /\ dpc = "save"
    /\ \E saved \in {saveReport(testDirOf(workspaceFolders), report[1], clock, artifacts)} :
         /\ artifacts' = saved.files
         /\ savedDirs' = lastTwo(Append(savedDirs, saved.reportDir))
    /\ dpc' = "done"
    /\ UNCHANGED <<perfVars, genVars, auxVars, clock, reports, config, mode, cases, hasProgress, conc, ex, idx, results,
                   progress, cancel, report, returned>>

\* Lines 354-362: every clone's executeTest is called, each running to its
\* first await, before Promise.all is reached.
ConcurrentLaunch ==
    /\ mode = "concurrent" /\ dpc = "call"
    /\ ex' = [i \in 1..conc |->
                startExecution(config, cloneCase(cases[1], i - 1, conc))]
    /\ dpc' = "awaitAll"
    /\ UNCHANGED <<otherVars, config, mode, cases, hasProgress, conc, idx, results,
                   progress, cancel, report, artifacts, returned>>

\* Line 364: the caller resumes when Promise.all settles.
ConcurrentSettle ==
    /\ mode = "concurrent" /\ dpc = "awaitAll"
    /\ promiseAll(ex).state # "pending"
    /\ IF promiseAll(ex).state = "resolved"
       THEN results' = promiseAll(ex).value /\ dpc' = "done"
       ELSE results' = results /\ dpc' = "rejected"
    /\ UNCHANGED <<otherVars, config, mode, cases, hasProgress, conc, ex, idx, progress,
                   cancel, report, artifacts, returned>>

Init ==
    /\ config \in Configs
    /\ mode \in {"executeTests", "manager", "concurrent"}
    /\ IF mode = "concurrent"
       THEN cases \in {<<tc>> : tc \in RunCases} /\ conc \in 0..MaxConc
       ELSE cases \in SeqsUpTo(RunCases, MaxCases) /\ conc = 0
    /\ hasProgress \in (IF mode = "executeTests" THEN BOOLEAN ELSE {FALSE})
    /\ ex = <<>>
    /\ dpc = "call"
    /\ idx = 0
    /\ results = <<>>
    /\ progress = <<>>
    /\ cancel = FALSE
    /\ report = None
    /\ artifacts = {}
    /\ returned = <<>>
    /\ PerfIdle
    /\ ReportIdle
    /\ GenIdle
    /\ AuxIdle

Next ==
    \/ BatchStart \/ BatchCollect \/ BatchDelayElapsed
    \/ ManagerStart \/ ManagerCollect \/ RequestCancel
    \/ GenerateReport \/ SaveReport
    \/ ConcurrentLaunch \/ ConcurrentSettle
    \/ ExecutionStep

Spec == Init /\ [][Next]_vars


(***************************************************************************)
(* Claims about the drivers and the report, checked under Spec.            *)
(***************************************************************************)

\* C1: for a configuration with a token, no artifact written by saveReport
\* contains the token's value, neither through the embedded configuration
\* nor through the results' request headers or their log lines.
C1_NoTokenInArtifacts ==
    config.token # None =>
        \A f \in artifacts : ~includes(f.content, config.token[1])

\* C5: executeConcurrentTest(case, N) returns exactly N results, the result at
\* position i carrying the id <case id>_concurrent_i, the ids pairwise
\* distinct, whatever the order in which the clones return.
C5_ConcurrentResultsByPosition ==
    mode = "concurrent" =>
        /\ dpc # "rejected"
        /\ dpc = "done" =>
            /\ Len(results) = conc
            /\ \A i \in 0..(conc - 1) :
                  results[i + 1].testCase.id
                      = cases[1].id \o "_concurrent_" \o ToString(i)
            /\ \A i, j \in 1..conc :
                  i # j => results[i].testCase.id # results[j].testCase.id

\* The second clone returned first, and its result is still the second one.
C5_Witness ==
    /\ mode = "concurrent" /\ dpc = "done" /\ conc = 2
    /\ returned = <<2, 1>>
    /\ results[2].testCase.id = "getUsers_functional_concurrent_1"

RequestSendable(x) == urlParses(config.baseUrl \o x.tc.endpoint.path)

\* C6: all N clones are launched before any is awaited, the stage completes
\* only after every clone has returned, and a failing clone neither keeps
\* another clone's request from being sent nor removes another's result.
C6_ClonesIndependent ==
    mode = "concurrent" =>
        /\ dpc # "call" => Len(ex) = conc
        /\ dpc # "rejected"
        /\ \A e \in 1..Len(ex) :
              (ex[e].pc # "sqlSetup" /\ RequestSendable(ex[e])) => ex[e].sent = 1
        /\ dpc = "done" =>
              /\ \A e \in 1..Len(ex) : ex[e].pc = "done"
              /\ Len(returned) = conc
              /\ Len(results) = conc
              /\ \A e \in 1..conc : results[e] = ex[e].result[1]

\* One clone failed with a transport error before the others returned; the
\* others' requests were sent and one of them passed.
C6_Witness ==
    /\ mode = "concurrent" /\ dpc = "done" /\ conc = 2
    /\ results[returned[1]].error # None
    /\ ex[returned[2]].sent = 1
    /\ results[returned[2]].passed

\* C7 as stated: the progress callback for case i is invoked after case i's
\* execution has produced its result.
C7_ProgressAfterResult ==
    [][Len(progress') > Len(progress) =>
            /\ Len(ex) >= Len(progress')
            /\ ex[Len(progress')].pc = "done"]_vars

\* C7 as amended: the callback for case i (current = i, total = the number of
\* cases) is invoked before case i's execution starts, once every earlier
\* case has produced its result; exactly once per case and in case order.
C7_ProgressBeforeExecution ==
    /\ [][Len(progress') > Len(progress) =>
            /\ progress' = Append(progress, <<Len(progress) + 1, Len(cases)>>)
            /\ Len(ex) = Len(progress)
            /\ Len(results) = Len(progress)
            /\ \A e \in 1..Len(ex) : ex[e].pc = "done"
            /\ Len(ex') = Len(progress')
            /\ ex'[Len(ex')].tc = cases[Len(progress')]
            /\ ex'[Len(ex')].pc # "done"]_vars
    /\ []((mode = "executeTests" /\ hasProgress) =>
            /\ Len(progress) = Len(ex)
            /\ dpc = "done" =>
                  progress = [i \in 1..Len(cases) |-> <<i, Len(cases)>>])

C7_Witness ==
    /\ mode = "executeTests" /\ hasProgress /\ dpc = "done"
    /\ Len(progress) = 2 /\ Len(results) = 2

\* C8: in the sequential run of testCurrentController no case is started once
\* cancellation is requested; the case in flight is not aborted, it returns
\* and its result is kept; the report gets the results of a prefix of the
\* case list, in case order.
C8_CancelBetweenCases ==
    /\ [][(mode = "manager" /\ cancel) => Len(ex') = Len(ex)]_vars
    /\ [][(mode = "manager" /\ ~cancel /\ cancel') => ex' = ex]_vars
    /\ [](mode = "manager" =>
            /\ Len(results) <= Len(cases)
            /\ \A j \in 1..Len(results) : results[j].testCase = cases[j]
            /\ dpc \in {"report", "save", "done"} =>
                  /\ Len(results) = Len(ex)
                  /\ \A e \in 1..Len(ex) :
                        ex[e].pc = "done" /\ results[e] = ex[e].result[1]
            /\ report # None => report[1].results = results
            /\ (dpc \in {"report", "save", "done"} /\ ~cancel) =>
                  Len(results) = Len(cases))

\* Cancelled while the first of two cases was in flight: one result.
C8_Witness ==
    /\ mode = "manager" /\ cancel /\ dpc = "done"
    /\ Len(cases) = 2 /\ Len(results) = 1
    /\ report[1].results = results
    /\ results[1].response.statusCode = 200

InExecution == {e \in 1..Len(ex) : ex[e].pc # "done"}

\* C9: a sequential batch has at most one case in execution at any time, the
\* request of a case is not sent before every earlier case has produced its
\* result, and the results are in the order of the input cases, one per case.
C9_SequentialOneAtATime ==
    mode \in {"executeTests", "manager"} =>
        /\ Cardinality(InExecution) <= 1
        /\ \A e \in 1..Len(ex) :
              /\ ex[e].tc = cases[e]
              /\ \A f \in 1..(e - 1) : ex[f].pc = "done" /\ Len(results) >= f
        /\ \A j \in 1..Len(results) :
              results[j] = ex[j].result[1] /\ results[j].testCase = cases[j]
        /\ (dpc = "done" /\ ~cancel) => Len(results) = Len(cases)

C9_Witness ==
    /\ mode = "executeTests" /\ dpc = "done"
    /\ Len(results) = 2 /\ cases[1] # cases[2]
    /\ \A e \in 1..2 : ex[e].sent = 1

SummaryCounts(sm) ==
    [total |-> sm.total, passed |-> sm.passed, failed |-> sm.failed,
     skipped |-> sm.skipped]

\* C13: the summary of a generated report has total = passed + failed +
\* skipped = the number of results, and reading report.json back gives the
\* same four counts.
C13_SummaryCountsRoundTrip ==
    /\ \A n \in 0..120 : parseDigits(ToString(n) \o ",", 0) = n
    /\ report # None =>
         LET sm == report[1].summary
         IN  /\ sm.total = sm.passed + sm.failed + sm.skipped
             /\ sm.total = Len(report[1].results)
    /\ \A f \in artifacts :
         f.name = "report.json" =>
            parseReportSummary(f.content) = SummaryCounts(report[1].summary)

\* A saved run of two cases, one passed and one failed without an error.
C13_Witness ==
    /\ \E f \in artifacts : f.name = "report.json"
    /\ report[1].summary.total = 2
    /\ report[1].summary.passed = 1
    /\ results[2].passed /\ ~results[1].passed /\ results[1].error = None


(***************************************************************************)
(* TestExecutor.executePerformanceTest: the iterations run one after the   *)
(* other, each response time is pushed to times, then times is sorted in   *)
(* place and the statistics are read from it.                              *)
(***************************************************************************)
\* Lines 385-389: the case handed to executeTest in iteration i.
perfCase(tc, i, n) ==
    [tc EXCEPT !.id = tc.id \o "_perf_" \o ToString(i),
               !.name = tc.name \o " (" \o ToString(i + 1) \o "/" \o ToString(n) \o ")"]

\* Mutant: the array left in push order.
sortNumeric_None(q) == q

\* The place (from 1) the stable sort gives to the element at position i.
sortedPlace(q, i) ==
    1 + Cardinality({j \in 1..Len(q) :
                        q[j] - q[i] < 0 \/ (q[j] - q[i] = 0 /\ j < i)})

\* Line 395: times.sort((a, b) => a - b).
sortNumeric(q) ==
    [k \in 1..Len(q) |-> q[CHOOSE i \in 1..Len(q) : sortedPlace(q, i) = k]]

\* An array read: undefined outside 0..length-1.
elementAt(q, i) == IF i + 1 \in 1..Len(q) THEN Some(q[i + 1]) ELSE None

\* Math.floor(n * 0.5), Math.floor(n * 0.9), Math.floor(n * 0.99) for pct =
\* 50, 90, 99: the double product n * 0.pct floors to the integer quotient
\* for every n the array can have.
percentileIndex(n, pct) == (n * pct) \div 100

\* Lines 396-403, on the sorted array; avg is kept as the quotient's terms.
computeStats(q) ==
    [min |-> elementAt(q, 0),
     max |-> elementAt(q, Len(q) - 1),
     avg |-> [sum |-> sumOf(q), count |-> Len(q)],
     p50 |-> elementAt(q, percentileIndex(Len(q), 50)),
     p90 |-> elementAt(q, percentileIndex(Len(q), 90)),
     p99 |-> elementAt(q, percentileIndex(Len(q), 99))]

\* Lines 384-404: the loop head at counter i with the times pushed so far.
PerfLoop(i, ts) ==
    /\ idx' = i
    /\ IF i < iterations
       THEN /\ ex' = Append(ex, startExecution(config, perfCase(cases[1], i, iterations)))
            /\ times' = ts
            /\ dpc' = "awaitExec"
            /\ UNCHANGED stats
       ELSE /\ times' = sortNumeric(ts)
            /\ stats' = Some(computeStats(sortNumeric(ts)))
            /\ dpc' = "done"
            /\ UNCHANGED ex

PerfStart ==
    /\ mode = "performance" /\ dpc = "call"
    /\ PerfLoop(0, times)
    /\ UNCHANGED <<config, mode, cases, hasProgress, conc, results, progress,
                   cancel, report, artifacts, returned, iterations, reportVars,
                   genVars, auxVars>>

\* Lines 385-391: the awaited result and its response time are pushed.
PerfCollect ==
    /\ mode = "performance" /\ dpc = "awaitExec"
    /\ ex[idx + 1].pc = "done"
    /\ results' = Append(results, ex[idx + 1].result[1])
    /\ PerfLoop(idx + 1, Append(times, ex[idx + 1].result[1].response.responseTime))
    /\ UNCHANGED <<config, mode, cases, hasProgress, conc, progress,
                   cancel, report, artifacts, returned, iterations, reportVars,
                   genVars, auxVars>>

InitPerf ==
    /\ config \in {c \in Configs : c.token = None}
    /\ mode = "performance"
    /\ cases \in {<<tc>> : tc \in {c \in RunCases : c.setup = <<>>}}
    /\ iterations \in 0..MaxIter
    /\ hasProgress = FALSE
    /\ conc = 0
    /\ ex = <<>>
    /\ dpc = "call"
    /\ idx = 0
    /\ results = <<>>
    /\ progress = <<>>
    /\ cancel = FALSE
    /\ report = None
    /\ artifacts = {}
    /\ returned = <<>>
    /\ times = <<>>
    /\ stats = None
    /\ ReportIdle
    /\ GenIdle
    /\ AuxIdle

NextPerf == PerfStart \/ PerfCollect \/ ExecutionStep

SpecPerf == InitPerf /\ [][NextPerf]_vars

\* The response times of the stated scenario: 10, 20, ..., 1000.
ScenarioTimes == [i \in 1..100 |-> 10 * i]
ScenarioStats == computeStats(sortNumeric(ScenarioTimes))

IsAscending(q) == \A i, j \in 1..Len(q) : i < j => q[i] <= q[j]

Occurrences(q, v) == Cardinality({i \in 1..Len(q) : q[i] = v})

\* C12: for M >= 1 runs, times ends as the M response times in ascending
\* order, p50, p90 and p99 are its elements at index floor(M*0.5),
\* floor(M*0.9) and floor(M*0.99), each index within 0..M-1, and
\* min <= p50 <= p90 <= p99 <= max; for 10, 20, ..., 1000 p50 is the element
\* at index 50 and p99 the element at index 99.
C12_PercentilesBySortedIndex ==
    /\ ScenarioStats.p50 = Some(ScenarioTimes[51])
    /\ ScenarioStats.p99 = Some(ScenarioTimes[100])
    /\ (mode = "performance" /\ dpc = "done" /\ iterations >= 1) =>
         LET M == iterations
             pushed == [i \in 1..Len(results) |-> results[i].response.responseTime]
             i50 == (5 * M) \div 10
             i90 == (9 * M) \div 10
             i99 == (99 * M) \div 100
         IN  /\ Len(results) = M /\ Len(times) = M
             /\ IsAscending(times)
             /\ \A v \in 0..(MaxRT + 1) : Occurrences(times, v) = Occurrences(pushed, v)
             /\ {i50, i90, i99} \subseteq 0..(M - 1)
             /\ stats # None
             /\ stats[1].min = Some(times[1])
             /\ stats[1].max = Some(times[M])
             /\ stats[1].p50 = Some(times[i50 + 1])
             /\ stats[1].p90 = Some(times[i90 + 1])
             /\ stats[1].p99 = Some(times[i99 + 1])
             /\ stats[1].min[1] <= stats[1].p50[1]
             /\ stats[1].p50[1] <= stats[1].p90[1]
             /\ stats[1].p90[1] <= stats[1].p99[1]
             /\ stats[1].p99[1] <= stats[1].max[1]

\* Three runs whose times were pushed in descending order.
C12_Witness ==
    /\ mode = "performance" /\ dpc = "done" /\ iterations = 3
    /\ results[1].response.responseTime = 2
    /\ results[2].response.responseTime = 1
    /\ results[3].response.responseTime = 0
    /\ stats[1].p50 = Some(1) /\ stats[1].p90 = Some(2) /\ stats[1].min = Some(0)


(***************************************************************************)
(* ReportGenerator on its own: generateReport and saveReport called        *)
(* repeatedly on one result batch while the clock runs.                    *)
(***************************************************************************)
\* The result executeTest returns for tc when the request gets response resp
\* after rt milliseconds.
answeredResult(cfg, tc, resp, rt) ==
    resumeHttp(cfg, [settle(startExecution(cfg, tc), "resolved", resp)
                        EXCEPT !.req = "closed"], rt).result[1]

\* The result executeTest returns for tc when the request times out.
timedOutResult(cfg, tc) ==
    resumeHttp(cfg, [settle(startExecution(cfg, tc), "rejected", TimeoutError)
                        EXCEPT !.req = "destroyed"], 0).result[1]

\* Result batches: the first n results of a run that passes its functional
\* case, fails its validation case and then times out, or of the same run
\* in reverse.
SampleBatches(cfg) ==
    LET ok == [statusCode |-> 200, statusText |-> "", body |-> Obj("{\"error\":\"npe\"}"),
               responseTime |-> 0]
        functional == testCase("getUsers_functional", PlainExpectation, 0, 0)
        validation == [testCase("getUsers_validation_missing_id", PlainExpectation, 0, 0)
                          EXCEPT !.category = "validation"]
        run == <<answeredResult(cfg, functional, ok, 1),
                 answeredResult(cfg, validation, [ok EXCEPT !.statusCode = 500], 2),
                 timedOutResult(cfg, functional),
                 answeredResult(cfg, validation, ok, 0)>>
        reversed == [i \in 1..Len(run) |-> run[Len(run) + 1 - i]]
    IN  {SubSeq(q, 1, n) : q \in {run, reversed}, n \in 0..MaxCases}

InitReport ==
    /\ config \in {c \in Configs : urlParses(c.baseUrl)}
    /\ mode = "report"
    /\ results \in SampleBatches(config)
    /\ cases = <<>>
    /\ hasProgress = FALSE
    /\ conc = 0
    /\ ex = <<>>
    /\ dpc = "idle"
    /\ idx = 0
    /\ progress = <<>>
    /\ cancel = FALSE
    /\ report = None
    /\ artifacts = {}
    /\ returned = <<>>
    /\ PerfIdle
    /\ ReportIdle
    /\ GenIdle
    /\ workspaceFolders \in {None, Some("/ws")} /\ PureIdle /\ StoreIdle /\ WatchIdle

\* Time passes between two calls.
Tick ==
    /\ mode = "report" /\ clock < MaxClock
    /\ clock' = clock + 1
    /\ UNCHANGED <<config, mode, cases, hasProgress, conc, ex, dpc, idx, results,
                   progress, cancel, report, artifacts, returned, perfVars,
                   genVars, auxVars, reports, savedDirs>>

\* generateReport(results, endpoints, config), lines 31-47.
CallGenerateReport ==
    /\ mode = "report"
    /\ \E rnd \in RandomSuffixes :
         /\ report' = Some(generateReport(results, config, clock, rnd))
         /\ reports' = lastTwo(Append(reports, generateReport(results, config, clock, rnd)))
    /\ UNCHANGED <<config, mode, cases, hasProgress, conc, ex, dpc, idx, results,
                   progress, cancel, artifacts, returned, perfVars, genVars, auxVars, clock,
                   savedDirs>>

\* saveReport(report) for the report generated last, lines 52-83.
CallSaveReport ==
    /\ mode = "report" /\ report # None
    /\ \E saved \in {saveReport(testDirOf(workspaceFolders), report[1], clock, artifacts)} :
         /\ artifacts' = saved.files
         /\ savedDirs' = lastTwo(Append(savedDirs, saved.reportDir))
    /\ UNCHANGED <<config, mode, cases, hasProgress, conc, ex, dpc, idx, results,
                   progress, cancel, report, returned, perfVars, genVars, auxVars, clock,
                   reports>>

NextReport == Tick \/ CallGenerateReport \/ CallSaveReport

SpecReport == InitReport /\ [][NextReport]_vars

\* C14: the reports of two generateReport calls on one batch and one
\* configuration have identical summaries (counts, duration, pass rate and
\* per-category counts); only id and generatedAt may differ, and a call
\* changes neither the batch nor the configuration.
C14_GenerateReportIdempotent ==
    /\ [](\A i, j \in 1..Len(reports) :
            /\ reports[i].summary = reports[j].summary
            /\ [reports[i] EXCEPT !.id = "", !.generatedAt = 0]
                  = [reports[j] EXCEPT !.id = "", !.generatedAt = 0]
            /\ reports[i].results = results
            /\ reports[i].config = sanitizeConfig(config))
    /\ [][reports' # reports => (results' = results /\ config' = config)]_vars

\* Two reports of a batch with both categories, generated at different
\* clock readings.
C14_Witness ==
    /\ mode = "report" /\ Len(reports) = 2
    /\ reports[1].id # reports[2].id
    /\ reports[1].generatedAt # reports[2].generatedAt
    /\ reports[1].summary.total = 2 /\ reports[1].summary.failed = 1
    /\ reports[1].summary.passRate = "50.0%"
    /\ reports[1].summary.duration = 3
    /\ reports[1].summary.categories["validation"].failed = 1
    /\ reports[1].summary.categories["functional"].passed = 1

\* C15: every saveReport call writes into a directory no earlier call wrote
\* into, also when two calls read the same clock millisecond.
C15_FreshDirectoryPerSave ==
    \A i, j \in 1..Len(savedDirs) : i < j => savedDirs[i] # savedDirs[j]


(***************************************************************************)
(* TestDataGenerator.  An object (pathParams, queryParams, headers, body)  *)
(* is a function from its keys to its values, and an absent object is      *)
(* None.  Math.random() returns k/4 for a draw k of RandomQuarters.        *)
(***************************************************************************)
RandomQuarters == 0..3

\* (k/4).toString(36).
randomToString36(k) == <<"0", "0.9", "0.i", "0.r">>[k + 1]

\* Math.floor(Math.random() * n) for the draw k.
randomFloor(k, n) == (k * n) \div 4

Min(a, b) == IF a < b THEN a ELSE b
Max(a, b) == IF a < b THEN b ELSE a

\* String.prototype.substring(a, b): both ends clamped, swapped when a > b.
substring(s, a, b) ==
    LET ca == Max(0, Min(a, Len(s)))
        cb == Max(0, Min(b, Len(s)))
    IN  SubSeq(s, Min(ca, cb) + 1, Max(ca, cb))

\* obj[key] = value, on an object that may be absent (input.x = input.x || {}).
setEntry(obj, key, value) ==
    LET old == IF obj = None THEN <<>> ELSE obj[1]
    IN  Some([k \in (DOMAIN old) \cup {key} |-> IF k = key THEN value ELSE old[k]])

\* if (obj) delete obj[key].
deleteEntry(obj, key) ==
    IF obj = None THEN None
    ELSE Some([k \in (DOMAIN obj[1]) \ {key} |-> obj[1][k]])

\* String(value), as the headers hold it.
stringOf(value) ==
    CASE value.kind = "number" -> ToString(value.n)
      [] value.kind = "string" -> value.text
      [] value.kind = "boolean" -> IF value.b THEN "true" ELSE "false"
      [] OTHER -> "[object Object]"

Bool(b) == [kind |-> "boolean", b |-> b]

\* ParameterConstraints with every member absent.
NoConstraints ==
    [min |-> None, max |-> None, maxLength |-> None, pattern |-> None,
     notBlank |-> FALSE, email |-> FALSE, phone |-> FALSE]

\* c.member || dflt for a numeric member: 0 and undefined both give dflt.
orDefault(member, dflt) ==
    IF member = None \/ member[1] = 0 THEN dflt ELSE member[1]

\* Lines 596-601.
integerValue(c, k) ==
    LET min == orDefault(c.min, 1)
        max == orDefault(c.max, 100)
    IN  randomFloor(k, max - min + 1) + min

\* Lines 585-628, for the draw k; constraints may be absent.
generateValueForType(type, constraints, k) ==
    LET c == IF constraints = None THEN NoConstraints ELSE constraints[1]
        t == toLowerCase(type)
    IN  CASE t = "string" ->
                IF c.email THEN Str("test@example.com")
                ELSE IF c.phone THEN Str("13800138000")
                ELSE IF c.pattern # None /\ c.pattern[1] # "" THEN Str("test123")
                ELSE Str("test_" \o substring(randomToString36(k), 2,
                                              Min(orDefault(c.maxLength, 20), 10)))
          [] t \in {"int", "integer", "long"} -> Num(integerValue(c, k))
          [] t = "boolean" -> Bool(TRUE)
          [] t \in {"list", "array"} -> Obj("[]")
          [] t \in {"map", "object"} -> Obj("{}")
          [] OTHER -> Str("test_value")

\* Lines 635-643, for fields without children.
RECURSIVE generateBodyFromFields(_, _)
generateBodyFromFields(fields, k) ==
    IF fields = <<>> THEN <<>>
    ELSE LET rest == generateBodyFromFields(SubSeq(fields, 1, Len(fields) - 1), k)
             field == fields[Len(fields)]
         IN  setEntry(Some(rest), field.name,
                      generateValueForType(field.type, field.constraints, k))[1]

\* The switch of lines 559-572 and 700-713: value stored at the location of
\* param.
storeAt(input, param, name, value) ==
    CASE param.in = "path" ->
            [input EXCEPT !.pathParams = setEntry(input.pathParams, name, value)]
      [] param.in = "query" ->
            [input EXCEPT !.queryParams = setEntry(input.queryParams, name, value)]
      [] param.in = "header" ->
            [input EXCEPT !.headers = setEntry(input.headers, name, Str(stringOf(value)))]
      [] OTHER -> input

RECURSIVE storeParameters(_, _)
storeParameters(params, k) ==
    IF params = <<>>
    THEN [pathParams |-> None, queryParams |-> None, headers |-> None, body |-> None]
    ELSE LET param == params[Len(params)]
         IN  storeAt(storeParameters(SubSeq(params, 1, Len(params) - 1), k),
                     param, param.name,
                     generateValueForType(param.type, param.constraints, k))

\* Lines 553-580.
generateNormalInput(ep, k) ==
    LET input == storeParameters(ep.parameters, k)
    IN  IF ep.requestBody # None
        THEN [input EXCEPT !.body = Some(generateBodyFromFields(ep.requestBody[1].fields, k))]
        ELSE input

\* Lines 650-661.
generateInputWithoutParam(ep, excludeParam, k) ==
    LET input == generateNormalInput(ep, k)
    IN  [input EXCEPT !.pathParams = deleteEntry(input.pathParams, excludeParam),
                      !.queryParams = deleteEntry(input.queryParams, excludeParam),
                      !.headers = deleteEntry(input.headers, excludeParam),
                      !.body = deleteEntry(input.body, excludeParam)]

\* Lines 693-723: the first parameter of that name decides the location; the
\* body entry is written as well when the body or its fields have the name.
generateInputWithValue(ep, paramName, value, k) ==
    LET input == generateNormalInput(ep, k)
        found == {i \in 1..Len(ep.parameters) : ep.parameters[i].name = paramName}
        first == CHOOSE i \in found : \A j \in found : i <= j
        stored == IF found = {} THEN input
                  ELSE storeAt(input, ep.parameters[first], paramName, value)
    IN  IF stored.body # None
            /\ (paramName \in DOMAIN stored.body[1]
                \/ \E i \in 1..Len(ep.requestBody[1].fields) :
                        ep.requestBody[1].fields[i].name = paramName)
        THEN [stored EXCEPT !.body = setEntry(stored.body, paramName, value)]
        ELSE stored

\* Lines 666-688.
generateInputWithWrongType(ep, param, k) ==
    LET t == toLowerCase(param.type)
        wrongValue == CASE t \in {"int", "integer", "long"} -> Str("not_a_number")
                        [] t = "boolean" -> Str("not_a_boolean")
                        [] t \in {"date", "localdate"} -> Str("invalid-date")
                        [] OTHER -> Obj("{\"invalid\":\"object\"}")
    IN  generateInputWithValue(ep, param.name, wrongValue, k)


\* A TestExpectation with every member absent.
NoExpectation ==
    [statusCode |-> None, statusCodes |-> None, responseContains |-> <<>>,
     responseNotContains |-> <<>>, responseTime |-> None, dbAssertions |-> <<>>]

\* A generated TestCase (name and description left out).
generatedCase(ep, suffix, category, input, expected) ==
    [id |-> ep.methodName \o "_" \o suffix, category |-> category, endpoint |-> ep,
     input |-> input, expected |-> expected]

\* Lines 293-311.
generateFunctionalTests(ep, k) ==
    <<generatedCase(ep, "functional_normal", "functional", generateNormalInput(ep, k),
                    [NoExpectation EXCEPT !.statusCode = Some(200),
                                          !.responseTime = Some(3000)])>>

\* Lines 318-330: the parameters followed by the body fields as parameters
\* located in the body.
allParamsOf(ep) ==
    ep.parameters \o
        (IF ep.requestBody = None THEN <<>>
         ELSE [i \in 1..Len(ep.requestBody[1].fields) |->
                 LET field == ep.requestBody[1].fields[i]
                 IN  [name |-> field.name, type |-> field.type, in |-> "body",
                      required |-> field.required, constraints |-> field.constraints]])

\* Mutant: 404 expected in place of 422.
missingParameterExpectation_NotFound(param) ==
    [NoExpectation EXCEPT !.statusCodes = Some(<<400, 404>>),
                          !.responseContains = <<param.name>>]

\* Lines 343-346.
missingParameterExpectation(param) ==
    [NoExpectation EXCEPT !.statusCodes = Some(<<400, 422>>),
                          !.responseContains = <<param.name>>]

Rejected == [NoExpectation EXCEPT !.statusCodes = Some(<<400, 422>>)]

\* Lines 517-546.
generateConstraintTests(ep, param, k) ==
    LET c == param.constraints[1]
    IN  (IF c.email
         THEN <<generatedCase(ep, "constraint_invalid_email_" \o param.name, "validation",
                    generateInputWithValue(ep, param.name, Str("invalid-email"), k),
                    Rejected)>>
         ELSE <<>>)
        \o (IF c.pattern # None /\ c.pattern[1] # ""
            THEN <<generatedCase(ep, "constraint_pattern_" \o param.name, "validation",
                    generateInputWithValue(ep, param.name, Str("!!!invalid!!!"), k),
                    Rejected)>>
            ELSE <<>>)

\* Lines 332-366: the cases of one parameter.
validationTestsOf(ep, param, k) ==
    (IF param.required
     THEN <<generatedCase(ep, "validation_missing_" \o param.name, "validation",
                generateInputWithoutParam(ep, param.name, k),
                missingParameterExpectation(param))>>
     ELSE <<>>)
    \o <<generatedCase(ep, "validation_type_" \o param.name, "validation",
                generateInputWithWrongType(ep, param, k), Rejected)>>
    \o (IF param.constraints # None THEN generateConstraintTests(ep, param, k) ELSE <<>>)

RECURSIVE concatMap(_, _, _, _)
concatMap(Op(_, _, _), ep, params, k) ==
    IF params = <<>> THEN <<>>
    ELSE concatMap(Op, ep, SubSeq(params, 1, Len(params) - 1), k)
            \o Op(ep, params[Len(params)], k)

\* Lines 316-370.
generateValidationTests(ep, k) == concatMap(validationTestsOf, ep, allParamsOf(ep), k)

RECURSIVE repeatString(_, _)
repeatString(s, n) == IF n <= 0 THEN "" ELSE s \o repeatString(s, n - 1)

\* Lines 377-457: the cases of one parameter.
boundaryTestsOf(ep, param, k) ==
    LET c == IF param.constraints = None THEN NoConstraints ELSE param.constraints[1]
        ok == [NoExpectation EXCEPT !.statusCode = Some(200)]
        with(suffix, value, expected) ==
            generatedCase(ep, "boundary_" \o suffix \o "_" \o param.name, "boundary",
                          generateInputWithValue(ep, param.name, value, k), expected)
    IN  (IF c.min # None
         THEN <<with("min", Num(c.min[1]), ok),
                with("below_min", Num(c.min[1] - 1), Rejected)>>
         ELSE <<>>)
        \o (IF c.max # None
            THEN <<with("max", Num(c.max[1]), ok),
                   with("above_max", Num(c.max[1] + 1), Rejected)>>
            ELSE <<>>)
        \o (IF c.maxLength # None
            THEN <<with("overlength", Str(repeatString("a", c.maxLength[1] + 10)), Rejected)>>
            ELSE <<>>)
        \o (IF param.type = "String"
            THEN <<with("empty", Str(""),
                        [NoExpectation EXCEPT !.statusCodes =
                            IF c.notBlank THEN Some(<<400, 422>>) ELSE Some(<<200>>)])>>
            ELSE <<>>)

\* Lines 375-461.
generateBoundaryTests(ep, k) == concatMap(boundaryTestsOf, ep, ep.parameters, k)

\* Lines 728-748, 753-773, 778-790: the payload goes to the first parameter
\* of type string; without one the input is the normal input.
injectedInput(ep, payload, k) ==
    LET strings == {i \in 1..Len(ep.parameters) :
                        toLowerCase(ep.parameters[i].type) = "string"}
    IN  IF strings = {} THEN generateNormalInput(ep, k)
        ELSE generateInputWithValue(ep,
                ep.parameters[CHOOSE i \in strings : \A j \in strings : i <= j].name,
                Str(payload), k)

sqlPayloads ==
    <<"'; DROP TABLE users; --", "1 OR 1=1", "1; SELECT * FROM users",
      "' UNION SELECT * FROM users --">>

xssPayloads ==
    <<"<script>alert(\"xss\")</script>", "<img src=x onerror=alert(\"xss\")>",
      "\"><script>alert(\"xss\")</script>", "javascript:alert('xss')">>

\* Line 777, without its backquote, which a string of this notation cannot hold.
specialChars == "!@#$%^&*()_+-=[]{}|;:'\",.<>?/\\~"

\* Lines 467-510.
generateExceptionTests(ep, k) ==
    <<generatedCase(ep, "exception_sql_injection", "exception",
            injectedInput(ep, sqlPayloads[randomFloor(k, Len(sqlPayloads)) + 1], k),
            [NoExpectation EXCEPT !.statusCodes = Some(<<200, 400>>),
                !.responseNotContains = <<"sql", "syntax", "mysql", "database error">>]),
      generatedCase(ep, "exception_xss", "exception",
            injectedInput(ep, xssPayloads[randomFloor(k, Len(xssPayloads)) + 1], k),
            [NoExpectation EXCEPT !.statusCodes = Some(<<200, 400>>),
                !.responseNotContains = <<"<script>">>]),
      generatedCase(ep, "exception_special_chars", "exception",
            injectedInput(ep, specialChars, k),
            [NoExpectation EXCEPT !.statusCodes = Some(<<200, 400>>)])>>

\* Lines 272-287.
generateTestCases(ep, k) ==
    generateFunctionalTests(ep, k) \o generateValidationTests(ep, k)
        \o generateBoundaryTests(ep, k) \o generateExceptionTests(ep, k)


(***************************************************************************)
(* SpecGen: one call of generateTestCases on an endpoint of Endpoints, or   *)
(* one call of generateValueForType on an integer type; the arguments are  *)
(* drawn at the start and the call draws Math.random().                    *)
(***************************************************************************)
MaxParams == 2

parameter(name, type, in, required, constraints) ==
    [name |-> name, type |-> type, in |-> in, required |-> required,
     constraints |-> constraints]

\* Parameters that share names across locations, with and without bounds.
ParamPool ==
    {parameter("id", "integer", "path", TRUE, Some([NoConstraints EXCEPT !.min = Some(1)])),
     parameter("id", "integer", "query", TRUE,
               Some([NoConstraints EXCEPT !.min = Some(0), !.max = Some(5)])),
     parameter("id", "long", "header", FALSE, Some([NoConstraints EXCEPT !.min = Some(1)])),
     parameter("q", "String", "query", FALSE, None),
     parameter("q", "String", "query", TRUE,
               Some([NoConstraints EXCEPT !.maxLength = Some(3), !.notBlank = TRUE])),
     parameter("limit", "int", "query", FALSE,
               Some([NoConstraints EXCEPT !.max = Some(0)]))}

field(name, type, required, constraints) ==
    [name |-> name, type |-> type, required |-> required, constraints |-> constraints]

RequestBodies ==
    {None,
     Some([fields |-> <<field("id", "integer", TRUE,
                              Some([NoConstraints EXCEPT !.min = Some(1)]))>>]),
     Some([fields |-> <<field("q", "String", FALSE, None)>>])}

Endpoints ==
    {[method |-> "GET", path |-> "/users/{id}", name |-> "getUser",
      methodName |-> "getUser", parameters |-> ps, requestBody |-> rb] :
        ps \in UNION {[1..n -> ParamPool] : n \in 0..MaxParams}, rb \in RequestBodies}

IntegerTypes == {"int", "integer", "long"}

IntegerConstraints ==
    {None} \cup
    {Some([NoConstraints EXCEPT !.min = lo, !.max = hi]) :
        lo \in {None, Some(-5), Some(0), Some(1), Some(150)},
        hi \in {None, Some(0), Some(100), Some(200)}}

\* Constraints of string parameters: a maximal length, alone or next to a
\* format.
StringConstraints ==
    {Some([NoConstraints EXCEPT !.maxLength = len, !.email = email, !.pattern = pattern]) :
        len \in {None, Some(1), Some(3), Some(8), Some(20)},
        email \in BOOLEAN, pattern \in {None, Some("[a-z]+")}}

\* The generateValueForType calls of the bounded domain.
ValueCalls ==
    {[type |-> t, constraints |-> c, value |-> None] :
        t \in IntegerTypes, c \in IntegerConstraints}
    \cup {[type |-> t, constraints |-> c, value |-> None] :
            t \in {"String", "string"}, c \in StringConstraints}

InitGen ==
    /\ config = CHOOSE c \in Configs : urlParses(c.baseUrl) /\ c.token = None
    /\ mode \in {"generateTestCases", "generateValueForType"}
    /\ results = <<>>
    /\ cases = <<>>
    /\ hasProgress = FALSE
    /\ conc = 0
    /\ ex = <<>>
    /\ dpc = "idle"
    /\ idx = 0
    /\ progress = <<>>
    /\ cancel = FALSE
    /\ report = None
    /\ artifacts = {}
    /\ returned = <<>>
    /\ PerfIdle
    /\ ReportIdle
    /\ AuxIdle
    /\ testCases = None
    /\ IF mode = "generateTestCases"
       THEN endpoint \in Endpoints /\ valueCall = None
       ELSE /\ endpoint = NoEndpoint
            /\ valueCall \in {Some(call) : call \in ValueCalls}

\* generateTestCases(endpoint) with the draw k.
CallGenerateTestCases ==
    /\ mode = "generateTestCases" /\ testCases = None
    /\ \E k \in RandomQuarters : testCases' = Some(generateTestCases(endpoint, k))
    /\ UNCHANGED <<endpoint, valueCall>>
    /\ UNCHANGED <<config, mode, cases, hasProgress, conc, ex, dpc, idx, results,
                   progress, cancel, report, artifacts, returned, perfVars, reportVars, auxVars>>

\* generateValueForType(type, constraints) with the draw k.
CallGenerateValueForType ==
    /\ mode = "generateValueForType" /\ valueCall[1].value = None
    /\ \E k \in RandomQuarters :
        valueCall' = Some([valueCall[1] EXCEPT !.value =
            Some(generateValueForType(valueCall[1].type, valueCall[1].constraints, k))])
    /\ UNCHANGED <<endpoint, testCases>>
    /\ UNCHANGED <<config, mode, cases, hasProgress, conc, ex, dpc, idx, results,
                   progress, cancel, report, artifacts, returned, perfVars, reportVars, auxVars>>

NextGen == CallGenerateTestCases \/ CallGenerateValueForType

SpecGen == InitGen /\ [][NextGen]_vars


(***************************************************************************)
(* Claims on SpecGen.                                                      *)
(***************************************************************************)
\* The cases of the last generateTestCases call.
GeneratedCases == IF testCases = None THEN <<>> ELSE testCases[1]

\* The positions of the generated cases with the id <methodName>_<suffix>.
CasesWithId(suffix) ==
    {j \in 1..Len(GeneratedCases) :
        GeneratedCases[j].id = endpoint.methodName \o "_" \o suffix}

StatusSet(expected) ==
    IF expected.statusCodes = None THEN {}
    ELSE {expected.statusCodes[1][n] : n \in DOMAIN expected.statusCodes[1]}

\* C16: for every required parameter p of the endpoint, body fields
\* included, a 'missing parameter' validation case is generated for p, its
\* expected status set is exactly {400, 422} and its list of required
\* substrings contains the name of p.
C16_MissingCaseExpectation ==
    testCases # None =>
        \A i \in 1..Len(allParamsOf(endpoint)) :
            LET p == allParamsOf(endpoint)[i]
                missing == CasesWithId("validation_missing_" \o p.name)
            IN  p.required =>
                    /\ missing # {}
                    /\ \A j \in missing :
                        LET e == GeneratedCases[j].expected
                        IN  /\ GeneratedCases[j].category = "validation"
                            /\ e.statusCode = None
                            /\ StatusSet(e) = {400, 422}
                            /\ \E n \in DOMAIN e.responseContains :
                                    e.responseContains[n] = p.name

\* A call on an endpoint with a required query parameter and a required body
\* field produced the missing-parameter cases of both.
C16_Witness ==
    /\ testCases # None
    /\ endpoint.requestBody # None
    /\ \E i \in 1..Len(endpoint.requestBody[1].fields) :
            /\ endpoint.requestBody[1].fields[i].required
            /\ endpoint.requestBody[1].fields[i].name = "id"
    /\ \E i \in 1..Len(endpoint.parameters) :
            /\ endpoint.parameters[i].required
            /\ endpoint.parameters[i].in = "query"
            /\ endpoint.parameters[i].name = "q"
    /\ CasesWithId("validation_missing_id") # {}
    /\ CasesWithId("validation_missing_q") # {}

\* The names of the endpoint's parameters and body fields other than the
\* parameter at position i.
OtherNames(i) ==
    {allParamsOf(endpoint)[j].name : j \in (1..Len(allParamsOf(endpoint))) \ {i}}

\* C17: for a required path-located parameter that no other parameter or
\* body field shares its name with, generateTestCases emits no 'missing
\* parameter' validation case, only a wrong-type case.
C17_NoMissingCaseForPathParam ==
    testCases # None =>
        \A i \in 1..Len(endpoint.parameters) :
            LET p == endpoint.parameters[i]
            IN  (p.required /\ p.in = "path" /\ p.name \notin OtherNames(i)) =>
                    /\ CasesWithId("validation_missing_" \o p.name) = {}
                    /\ CasesWithId("validation_type_" \o p.name) # {}

\* The entry of name at the location of a parameter, None when absent.
entryAt(input, in, name) ==
    LET obj == CASE in = "path" -> input.pathParams
                 [] in = "query" -> input.queryParams
                 [] in = "header" -> input.headers
                 [] OTHER -> input.body
    IN  IF obj = None \/ name \notin DOMAIN obj[1] THEN None ELSE Some(obj[1][name])

\* The entry holds the number n; a header holds it as its decimal string.
HoldsNumber(input, in, name, n) ==
    entryAt(input, in, name) = Some(IF in = "header" THEN Str(ToString(n)) ELSE Num(n))

\* Some case of that id holds n for the parameter p and expects the statuses.
BoundaryCase(suffix, p, n, statusCode, statuses) ==
    \E j \in CasesWithId("boundary_" \o suffix \o "_" \o p.name) :
        /\ HoldsNumber(GeneratedCases[j].input, p.in, p.name, n)
        /\ GeneratedCases[j].expected.statusCode = statusCode
        /\ StatusSet(GeneratedCases[j].expected) = statuses

\* C18: for every numeric parameter with min = m in the path, the query or
\* a header, the min-boundary case holds m for that parameter and expects
\* 200, and the below-min case holds m-1 and expects {400, 422}; likewise
\* max and max+1.
C18_BoundaryValuesExact ==
    testCases # None =>
        \A i \in 1..Len(endpoint.parameters) :
            LET p == endpoint.parameters[i]
                c == IF p.constraints = None THEN NoConstraints ELSE p.constraints[1]
            IN  (toLowerCase(p.type) \in IntegerTypes /\ p.in \in {"path", "query", "header"}) =>
                    /\ c.min # None =>
                        /\ BoundaryCase("min", p, c.min[1], Some(200), {})
                        /\ BoundaryCase("below_min", p, c.min[1] - 1, None, {400, 422})
                    /\ c.max # None =>
                        /\ BoundaryCase("max", p, c.max[1], Some(200), {})
                        /\ BoundaryCase("above_max", p, c.max[1] + 1, None, {400, 422})

Locations == {"path", "query", "header", "body"}

\* The keys present at a location of an input.
keysAt(input, in) ==
    LET obj == CASE in = "path" -> input.pathParams
                 [] in = "query" -> input.queryParams
                 [] in = "header" -> input.headers
                 [] OTHER -> input.body
    IN  IF obj = None THEN {} ELSE DOMAIN obj[1]

\* The entries, as <<location, name>>, in which two inputs differ.
DifferingEntries(a, b) ==
    {e \in UNION {{<<in, name>> : name \in keysAt(a, in) \cup keysAt(b, in)} :
                    in \in Locations} :
        entryAt(a, e[1], e[2]) # entryAt(b, e[1], e[2])}

\* C19: the input of every validation, boundary and exception case differs
\* from a canonical valid input of the endpoint in no more than one entry.
C19_OneEntryChanged ==
    testCases # None =>
        \A j \in 1..Len(GeneratedCases) :
            GeneratedCases[j].category \in {"validation", "boundary", "exception"} =>
                \E k \in RandomQuarters :
                    Cardinality(DifferingEntries(GeneratedCases[j].input,
                                                 generateNormalInput(endpoint, k))) <= 1

\* C20: the value generateValueForType returns for an integer type lies in
\* lo..hi, lo the min constraint if set and else 1, hi the max constraint if
\* set and else 100, whenever that range is not empty.
C20_IntegerWithinBounds ==
    (valueCall # None /\ valueCall[1].value # None /\ valueCall[1].type \in IntegerTypes) =>
        LET c == IF valueCall[1].constraints = None THEN NoConstraints
                 ELSE valueCall[1].constraints[1]
            lo == IF c.min = None THEN 1 ELSE c.min[1]
            hi == IF c.max = None THEN 100 ELSE c.max[1]
            v == valueCall[1].value[1]
        IN  lo <= hi => (v.kind = "number" /\ lo <= v.n /\ v.n <= hi)


(***************************************************************************)
(* SpecPure: one call of JavaControllerParser.combinePath on two path      *)
(* fragments, or one pass of an error through the catch block of           *)
(* executeTest; the arguments are drawn at the start.                      *)
(***************************************************************************)
startsWith(s, prefix) == Len(s) >= Len(prefix) /\ SubSeq(s, 1, Len(prefix)) = prefix

\* javaParser.ts lines 169-177.
combinePath(basePath, methodPath) ==
    LET base == IF startsWith(basePath, "/") THEN basePath ELSE "/" \o basePath
        method == IF startsWith(methodPath, "/") THEN methodPath ELSE "/" \o methodPath
    IN  IF base = "/" THEN method
        ELSE IF method = "/" THEN base
        ELSE base \o method

\* What extractPath may return for a class-level or method-level mapping.
PathFragments ==
    {"", "/", "api", "/api", "api/", "/api/", "users", "/users", "/users/",
     "/users/{id}", "{id}", "/api/v1"}

\* Messages of thrown errors: up to three of the words the classification
\* looks for, in any order and letter case, and other words.
MessageWords == {"Timeout", "connect", "ECONNREFUSED", "AssertionError", "hang up"}

ErrorMessages ==
    {""} \cup MessageWords
         \cup {a \o " " \o b : a, b \in MessageWords}
         \cup {a \o " " \o b \o " " \o c : a, b, c \in MessageWords}

ThrownErrors == {[message |-> None]} \cup {[message |-> Some(m)] : m \in ErrorMessages}

InitPure ==
    /\ config = CHOOSE c \in Configs : urlParses(c.baseUrl) /\ c.token = None
    /\ mode \in {"combinePath", "categorizeError"}
    /\ results = <<>>
    /\ cases = <<>>
    /\ hasProgress = FALSE
    /\ conc = 0
    /\ ex = <<>>
    /\ dpc = "idle"
    /\ idx = 0
    /\ progress = <<>>
    /\ cancel = FALSE
    /\ report = None
    /\ artifacts = {}
    /\ returned = <<>>
    /\ PerfIdle
    /\ ReportIdle
    /\ GenIdle
    /\ workspaceFolders = Some("/ws") /\ StoreIdle /\ WatchIdle
    /\ IF mode = "combinePath"
       THEN pureCall \in {Some([basePath |-> b, methodPath |-> m, value |-> None]) :
                            b, m \in PathFragments}
       ELSE pureCall \in {Some([thrown |-> e, value |-> None]) : e \in ThrownErrors}

PureFrame ==
    UNCHANGED <<config, mode, cases, hasProgress, conc, ex, dpc, idx, results, progress,
                cancel, report, artifacts, returned, perfVars, reportVars, genVars,
                workspaceFolders, storeVars, watchVars>>

CallCombinePath ==
    /\ mode = "combinePath" /\ pureCall[1].value = None
    /\ pureCall' = Some([pureCall[1] EXCEPT !.value =
                            Some(combinePath(pureCall[1].basePath, pureCall[1].methodPath))])
    /\ PureFrame

\* An error thrown inside the try block of executeTest reaches the catch block.
CatchError ==
    /\ mode = "categorizeError" /\ pureCall[1].value = None
    /\ pureCall' = Some([pureCall[1] EXCEPT !.value = Some(captureError(pureCall[1].thrown))])
    /\ PureFrame

NextPure == CallCombinePath \/ CatchError

SpecPure == InitPure /\ [][NextPure]_vars

\* A path fragment with the leading '/' it is given when it has none.
Absolute(p) == IF startsWith(p, "/") THEN p ELSE "/" \o p

\* C21: the combined path of any two fragments starts with '/', holds no
\* '//', and is the other fragment (made absolute) when one fragment is empty
\* or the bare '/'.
C21_CombinedPathNormalized ==
    (mode = "combinePath" /\ pureCall[1].value # None) =>
        LET c == pureCall[1]
            path == c.value[1]
        IN  /\ startsWith(path, "/")
            /\ ~includes(path, "//")
            /\ c.basePath \in {"", "/"} => path = Absolute(c.methodPath)
            /\ c.methodPath \in {"", "/"} => path = Absolute(c.basePath)

\* C25: a captured error is `timeout` exactly when its lower-cased message
\* contains 'timeout', else `connection` exactly when it contains 'connect'
\* or 'econnrefused', else `assertion` exactly when it contains 'assert',
\* else `exception`; an error without message is `exception`, and the kind
\* is never `unknown`.
C25_ErrorKindByMessage ==
    (mode = "categorizeError" /\ pureCall[1].value # None) =>
        LET e == pureCall[1].thrown
            kind == pureCall[1].value[1].type
            m == IF e.message = None THEN "" ELSE toLowerCase(e.message[1])
            isTimeout == includes(m, "timeout")
            isConnection == ~isTimeout /\ (includes(m, "connect") \/ includes(m, "econnrefused"))
            isAssertion == ~isTimeout /\ ~isConnection /\ includes(m, "assert")
        IN  /\ kind \in {"timeout", "connection", "assertion", "exception"}
            /\ (kind = "timeout") = isTimeout
            /\ (kind = "connection") = isConnection
            /\ (kind = "assertion") = isAssertion
            /\ e.message = None => kind = "exception"
            /\ pureCall[1].value[1].message = e.message

\* An error whose message holds 'connect' before 'timeout' was classified
\* `timeout`, and one that names an assertion and a refused connection was
\* classified `connection`.
C25_Witness ==
    /\ mode = "categorizeError" /\ pureCall[1].value # None
    /\ pureCall[1].thrown.message \in {Some("connect Timeout"), Some("AssertionError ECONNREFUSED")}
    /\ pureCall[1].value[1].type \in {"timeout", "connection"}


(***************************************************************************)
(* LogStorage.  An entry is (content, source, isError, isWarning,          *)
(* terminalName); its id and timestamp are left out.  save() is modelled   *)
(* by its update of globalState 'capturedLogs'.                            *)
(***************************************************************************)
MaxLogLines == 2

\* String.prototype.trim, for the blank the modelled contents hold.
RECURSIVE trim(_)
trim(s) ==
    IF s = "" THEN ""
    ELSE IF SubSeq(s, 1, 1) = " " THEN trim(SubSeq(s, 2, Len(s)))
    ELSE IF SubSeq(s, Len(s), Len(s)) = " " THEN trim(SubSeq(s, 1, Len(s) - 1))
    ELSE s

\* Lines 28-30, with the default capturePatterns.
errorPatterns == <<"error", "exception", "fail", "crash">>
warningPatterns == <<"warn", "warning">>

\* Lines 75-90: the five patterns that are plain words matched in any letter
\* case; the four positional patterns need a '(file:line)' or an indented
\* 'at', which no modelled content holds.
isStackTrace(content) ==
    \E w \in {"traceback (most recent call last)", "exception in thread", "panic:",
              "fatal", "unhandled"} : includes(toLowerCase(content), w)

\* Array.prototype.slice(-n): the last n elements; slice(-0) is slice(0).
sliceLast(q, n) ==
    LET start == IF n > 0 THEN Max(Len(q) - n, 0) ELSE Min(0 - n, Len(q))
    IN  SubSeq(q, start + 1, Len(q))

\* Lines 36-73, on the storage st = (logs, saved, maxLines).
addLog(st, content, source, terminalName) ==
    IF trim(content) = "" THEN st
    ELSE
      LET lowerContent == toLowerCase(content)
          isError == (\E i \in DOMAIN errorPatterns : includes(lowerContent, errorPatterns[i]))
                        \/ isStackTrace(content)
          isWarning == \E i \in DOMAIN warningPatterns :
                            includes(lowerContent, warningPatterns[i])
          pushed == Append(st.logs,
                           [content |-> trim(content), source |-> source, isError |-> isError,
                            isWarning |-> isWarning, terminalName |-> terminalName])
          kept == IF Len(pushed) > st.maxLines THEN sliceLast(pushed, st.maxLines)
                  ELSE pushed
      IN  [st EXCEPT !.logs = kept, !.saved = IF isError THEN Some(kept) ELSE st.saved]

\* Lines 129-138: the saved list replaces the empty one, whatever its length.
load(saved) == IF saved # None THEN saved[1] ELSE <<>>

\* The LogStorage object and the globalState it saves to.
Storage == [logs |-> storageLogs, saved |-> savedLogs, maxLines |-> maxLines]

\* What a terminal or a file may hand to addLog.
LogContents == {"", "  ", "build ok", " Error: boom ", "WARN slow", "FATAL"}

(***************************************************************************)
(* SpecStore: a LogStorage over several sessions of the extension.         *)
(***************************************************************************)
InitStore ==
    /\ config = CHOOSE c \in Configs : urlParses(c.baseUrl) /\ c.token = None
    /\ mode = "logStorage"
    /\ results = <<>>
    /\ cases = <<>>
    /\ hasProgress = FALSE
    /\ conc = 0
    /\ ex = <<>>
    /\ dpc = "idle"
    /\ idx = 0
    /\ progress = <<>>
    /\ cancel = FALSE
    /\ report = None
    /\ artifacts = {}
    /\ returned = <<>>
    /\ PerfIdle
    /\ ReportIdle
    /\ GenIdle
    /\ workspaceFolders = Some("/ws") /\ PureIdle /\ WatchIdle
    /\ storageLogs = <<>>
    /\ savedLogs = None
    /\ maxLines \in 1..MaxLogLines

StoreFrame ==
    UNCHANGED <<config, mode, cases, hasProgress, conc, ex, dpc, idx, results, progress,
                cancel, report, artifacts, returned, perfVars, reportVars, genVars,
                pureCall, workspaceFolders, watchVars>>

\* terminalLogger.ts line 108: a terminal line is added.
AddLog ==
    /\ mode = "logStorage"
    /\ \E content \in LogContents :
        LET st == addLog(Storage, content, "terminal", Some("bash"))
        IN  storageLogs' = st.logs /\ savedLogs' = st.saved
    /\ UNCHANGED maxLines
    /\ StoreFrame

\* Lines 112-115.
ClearLogs ==
    /\ mode = "logStorage"
    /\ storageLogs' = <<>>
    /\ savedLogs' = Some(<<>>)
    /\ UNCHANGED maxLines
    /\ StoreFrame

\* Lines 117-127, called when capture stops and on deactivation.
SaveLogs ==
    /\ mode = "logStorage"
    /\ savedLogs' = Some(storageLogs)
    /\ UNCHANGED <<storageLogs, maxLines>>
    /\ StoreFrame

\* Lines 22-34: the next session constructs a LogStorage over the same
\* globalState, with the logCapture.maxLogLines then configured.
ConstructStorage ==
    /\ mode = "logStorage"
    /\ \E n \in 1..MaxLogLines : maxLines' = n
    /\ storageLogs' = load(savedLogs)
    /\ UNCHANGED savedLogs
    /\ StoreFrame

NextStore == AddLog \/ ClearLogs \/ SaveLogs \/ ConstructStorage

SpecStore == InitStore /\ [][NextStore]_vars

\* C22: in every state of the LogStorage the number of stored entries is at
\* most maxLogLines.
C22_AtMostMaxLogLines == mode = "logStorage" => Len(storageLogs) <= maxLines


(***************************************************************************)
(* IdeaLogWatcher.  A log file is the sequence of its lines and its size   *)
(* is their number: writers add whole lines, and positions count lines.    *)
(* The directory watchers opened by watchForNewLogFiles are kept in no     *)
(* field; dirWatching tells that at least one is open.                     *)
(***************************************************************************)
MaxWrites == 2

\* The watcher's two maps.
Watcher == [watchers |-> watchers, filePositions |-> filePositions]

\* fs.statSync(path).size; None when the file does not exist (statSync throws).
sizeOf(fs, path) == IF fs[path] = None THEN None ELSE Some(Len(fs[path][1]))

\* Lines 91-113: a path already watched or a missing file changes nothing.
watchFile(w, fs, filePath) ==
    IF filePath \in w.watchers \/ sizeOf(fs, filePath) = None THEN w
    ELSE [watchers |-> w.watchers \cup {filePath},
          filePositions |-> [w.filePositions EXCEPT ![filePath] = sizeOf(fs, filePath)]]

RECURSIVE watchFiles(_, _, _)
watchFiles(w, fs, paths) ==
    IF paths = {} THEN w
    ELSE LET p == CHOOSE q \in paths : TRUE
         IN  watchFiles(watchFile(w, fs, p), fs, paths \ {p})

\* path.basename
basename(path) == IF path = "logs/app.log" THEN "app.log" ELSE "new.log"

RECURSIVE addLines(_, _, _)
addLines(st, lines, fileName) ==
    IF lines = <<>> THEN st
    ELSE addLines(IF trim(lines[1]) # ""
                  THEN addLog(st, trim(lines[1]), "idea", Some(fileName))
                  ELSE st,
                  Tail(lines), fileName)

\* Lines 118-153: the new position and the storage after the call.
readNewContent(w, st, fs, filePath) ==
    LET size == sizeOf(fs, filePath)
        lastPosition == IF w.filePositions[filePath] = None THEN 0
                        ELSE w.filePositions[filePath][1]
    IN  IF size = None THEN [w |-> w, st |-> st]
        ELSE IF size[1] <= lastPosition
        THEN [w |-> [w EXCEPT !.filePositions[filePath] = size], st |-> st]
        ELSE [w |-> [w EXCEPT !.filePositions[filePath] = size],
              st |-> addLines(st, SubSeq(fs[filePath][1], lastPosition + 1, size[1]),
                              basename(filePath))]

(***************************************************************************)
(* SpecWatch: the watcher's commands, writers of the log files, and the    *)
(* delivery of file-system events.                                         *)
(***************************************************************************)
InitWatch ==
    /\ config = CHOOSE c \in Configs : urlParses(c.baseUrl) /\ c.token = None
    /\ mode = "watch"
    /\ results = <<>>
    /\ cases = <<>>
    /\ hasProgress = FALSE
    /\ conc = 0
    /\ ex = <<>>
    /\ dpc = "idle"
    /\ idx = 0
    /\ progress = <<>>
    /\ cancel = FALSE
    /\ report = None
    /\ artifacts = {}
    /\ returned = <<>>
    /\ PerfIdle
    /\ ReportIdle
    /\ GenIdle
    /\ workspaceFolders = Some("/ws") /\ PureIdle
    /\ storageLogs = <<>> /\ savedLogs = None /\ maxLines = 1000
    /\ logFiles \in {[p \in LogPaths |-> IF p = "logs/app.log" THEN Some(old) ELSE None] :
                        old \in {<<>>, <<"old 1">>, <<"old 1", "old 2">>}}
    /\ watchers = {}
    /\ filePositions = [p \in LogPaths |-> None]
    /\ dirWatching = FALSE
    /\ pendingChange = {}
    /\ pendingDir = {}
    /\ startPc = "idle"
    /\ stopped = FALSE
    /\ fresh = [p \in LogPaths |-> <<>>]
    /\ writes = 0

WatchFrame ==
    UNCHANGED <<config, mode, cases, hasProgress, conc, ex, dpc, idx, results, progress,
                cancel, report, artifacts, returned, perfVars, reportVars, genVars,
                pureCall, workspaceFolders>>

\* The watcher becomes w; a path newly watched has no fresh lines yet.
SetWatcher(w) ==
    /\ watchers' = w.watchers
    /\ filePositions' = w.filePositions
    /\ fresh' = [p \in LogPaths |-> IF p \in w.watchers \ watchers THEN <<>> ELSE fresh[p]]

\* Lines 43-56: startWatching up to its await of findFiles.
StartWatching ==
    /\ mode = "watch" /\ startPc = "idle"
    /\ startPc' = "finding"
    /\ stopped' = FALSE
    /\ UNCHANGED <<storeVars, logFiles, watchers, filePositions, dirWatching,
                   pendingChange, pendingDir, fresh, writes>>
    /\ WatchFrame

\* Lines 75-86 and 59-61: the files found are put under watch, then the
\* directory watchers are opened.
FoundFiles ==
    /\ mode = "watch" /\ startPc = "finding"
    /\ SetWatcher(watchFiles(Watcher, logFiles, {p \in LogPaths : logFiles[p] # None}))
    /\ dirWatching' = TRUE
    /\ startPc' = "idle"
    /\ UNCHANGED <<storeVars, logFiles, pendingChange, pendingDir, stopped, writes>>
    /\ WatchFrame

\* Lines 188-205, for one file picked in the dialog.
AddCustomLogFile ==
    /\ mode = "watch"
    /\ \E p \in LogPaths : SetWatcher(watchFile(Watcher, logFiles, p))
    /\ stopped' = FALSE
    /\ UNCHANGED <<storeVars, logFiles, dirWatching, pendingChange, pendingDir, startPc,
                   writes>>
    /\ WatchFrame

\* Lines 236-243: the file watchers are closed, and a closed watcher
\* delivers no further event; the directory watchers stay open.
StopWatching ==
    /\ mode = "watch"
    /\ watchers' = {}
    /\ filePositions' = [p \in LogPaths |-> None]
    /\ pendingChange' = {}
    /\ stopped' = (startPc = "idle")
    /\ UNCHANGED <<storeVars, logFiles, dirWatching, pendingDir, startPc, fresh, writes>>
    /\ WatchFrame

\* The events a change of the file at path raises: one per open watcher.
Raise(path) ==
    /\ pendingChange' = IF path \in watchers THEN pendingChange \cup {path} ELSE pendingChange
    /\ pendingDir' = IF dirWatching THEN pendingDir \cup {path} ELSE pendingDir

\* Another program creates a log file.
CreateFile ==
    /\ mode = "watch"
    /\ \E p \in LogPaths :
        /\ logFiles[p] = None
        /\ logFiles' = [logFiles EXCEPT ![p] = Some(<<>>)]
        /\ Raise(p)
    /\ UNCHANGED <<storeVars, watchers, filePositions, dirWatching, startPc, stopped,
                   fresh, writes>>
    /\ WatchFrame

\* Another program appends a line to a log file.
AppendLine ==
    /\ mode = "watch" /\ writes < MaxWrites
    /\ \E p \in LogPaths :
        LET line == "line " \o ToString(writes + 1)
        IN  /\ logFiles[p] # None
            /\ logFiles' = [logFiles EXCEPT ![p] = Some(Append(logFiles[p][1], line))]
            /\ fresh' = [fresh EXCEPT ![p] = IF p \in watchers THEN Append(@, line) ELSE @]
            /\ Raise(p)
    /\ writes' = writes + 1
    /\ UNCHANGED <<storeVars, watchers, filePositions, dirWatching, startPc, stopped>>
    /\ WatchFrame

\* Another program truncates a log file (log rotation, a restart of the
\* application that writes it).
TruncateFile ==
    /\ mode = "watch"
    /\ \E p \in LogPaths :
        /\ logFiles[p] # None /\ logFiles[p][1] # <<>>
        /\ logFiles' = [logFiles EXCEPT ![p] = Some(<<>>)]
        /\ fresh' = [fresh EXCEPT ![p] = <<>>]
        /\ Raise(p)
    /\ UNCHANGED <<storeVars, watchers, filePositions, dirWatching, startPc, stopped,
                   writes>>
    /\ WatchFrame

\* Lines 101-105: the callback of a file watcher, for a 'change' event.
DeliverChange ==
    /\ mode = "watch"
    /\ \E p \in pendingChange :
        LET r == readNewContent(Watcher, Storage, logFiles, p)
        IN  /\ filePositions' = r.w.filePositions
            /\ storageLogs' = r.st.logs
            /\ savedLogs' = r.st.saved
            /\ pendingChange' = pendingChange \ {p}
    /\ UNCHANGED <<maxLines, logFiles, watchers, dirWatching, pendingDir, startPc, stopped,
                   fresh, writes>>
    /\ WatchFrame

\* Lines 170-177: the callback of a directory watcher, for a file name
\* ending in '.log'.
DeliverDirEvent ==
    /\ mode = "watch"
    /\ \E p \in pendingDir :
        /\ SetWatcher(watchFile(Watcher, logFiles, p))
        /\ pendingDir' = pendingDir \ {p}
    /\ UNCHANGED <<storeVars, logFiles, dirWatching, pendingChange, startPc, stopped, writes>>
    /\ WatchFrame

NextWatch ==
    \/ StartWatching \/ FoundFiles \/ AddCustomLogFile \/ StopWatching
    \/ CreateFile \/ AppendLine \/ TruncateFile
    \/ DeliverChange \/ DeliverDirEvent

SpecWatch == InitWatch /\ [][NextWatch]_vars

\* C29: after stopWatching, until the next startWatching or
\* addCustomLogFile, no file is watched and no log entry is added to the
\* storage.
C29_StoppedStaysStopped ==
    /\ [](stopped => watchers = {})
    /\ [][(stopped /\ stopped') => storageLogs' = storageLogs]_vars

\* The number of stored entries whose content is the line.
Stored(line) == Cardinality({i \in 1..Len(storageLogs) : storageLogs[i].content = line})

\* C30: once the change events of a watched file are processed, its read
\* position is at most its size and every line that is in the file and was
\* written since the watch began is stored exactly once; no line is ever
\* stored twice.
C30_EveryLineOnce ==
    mode = "watch" =>
        /\ \A p \in watchers \ pendingChange :
            /\ filePositions[p] # None
            /\ filePositions[p][1] <= Len(logFiles[p][1])
            /\ \A i \in 1..Len(fresh[p]) : Stored(fresh[p][i]) = 1
        /\ \A i \in 1..Len(storageLogs) : Stored(storageLogs[i].content) = 1


(***************************************************************************)
(* Further claims on executeTest, checked under SpecExec.                  *)
(***************************************************************************)
\* C23: in the verdict of a case whose request was answered, the i-th data
\* assertion is checked against the record of executing its own statement,
\* whatever the number of setup statements.
C23_AssertionAgainstOwnRecord ==
    \A x \in Returned :
        x.error = None =>
            \A i \in 1..Len(x.tc.expected.dbAssertions) :
                assertedRecord(x.result[1].dbResults, i)
                    = Some(executeSql(x.tc.expected.dbAssertions[i].sql))

C26_NoArtifactWithoutWorkspace == workspaceFolders = None => artifacts = {}


(***************************************************************************)
(* Further claims on the TestDataGenerator, checked under SpecGen.         *)
(***************************************************************************)
\* C27: for a string type with maxLength L >= 1 and no email, phone or
\* pattern constraint, the value generateValueForType returns has at most L
\* characters.
C27_StringWithinMaxLength ==
    (valueCall # None /\ valueCall[1].value # None
        /\ toLowerCase(valueCall[1].type) = "string") =>
        LET c == valueCall[1].constraints[1]
            v == valueCall[1].value[1]
        IN  (c.maxLength # None /\ c.maxLength[1] >= 1
                /\ ~c.email /\ ~c.phone /\ c.pattern = None) =>
                    (v.kind = "string" /\ Len(v.text) <= c.maxLength[1])

\* C28: the ids of the cases generateTestCases returns for one endpoint are
\* pairwise distinct.
C28_DistinctCaseIds ==
    \A i, j \in 1..Len(GeneratedCases) :
        i # j => GeneratedCases[i].id # GeneratedCases[j].id


====
